---- MODULE Spec2Model ----
(***************************************************************************)
(* A model of the contract-helper core: the Signature Directory            *)
(* (signature_lookup.py), the call-data decoder (calldata_decoder.py) and  *)
(* the function encoder (function_encoder.py).                             *)
(*                                                                         *)
(* Python str values are sequences of one-character strings, bytes values  *)
(* are sequences of 0..255, dicts are records with the dict's keys.        *)
(***************************************************************************)
EXTENDS Integers, Sequences, FiniteSets, TLC

VARIABLES cache, pc, frame, last, requests, input

vars == <<cache, pc, frame, last, requests, input>>

(***************************************************************************)
(* Bounds of the model.                                                    *)
(***************************************************************************)
\* the calls that can be in progress at once
NumTasks == 2
\* the remote requests of one behaviour
MaxRequests == 2
\* the characters between the parentheses of a generated signature
MaxInterior == 5

Tasks == 1..NumTasks

(***************************************************************************)
(* Python str operations.                                                  *)
(***************************************************************************)
UpperToLower ==
  [c \in {"A","B","C","D","E","F","G","H","I","J","K","L","M","N","O","P","Q","R","S","T","U","V","W","X","Y","Z"} |->
     CASE c = "A" -> "a" [] c = "B" -> "b" [] c = "C" -> "c" [] c = "D" -> "d"
       [] c = "E" -> "e" [] c = "F" -> "f" [] c = "G" -> "g" [] c = "H" -> "h"
       [] c = "I" -> "i" [] c = "J" -> "j" [] c = "K" -> "k" [] c = "L" -> "l"
       [] c = "M" -> "m" [] c = "N" -> "n" [] c = "O" -> "o" [] c = "P" -> "p"
       [] c = "Q" -> "q" [] c = "R" -> "r" [] c = "S" -> "s" [] c = "T" -> "t"
       [] c = "U" -> "u" [] c = "V" -> "v" [] c = "W" -> "w" [] c = "X" -> "x"
       [] c = "Y" -> "y" [] c = "Z" -> "z"]

\* str.lower()
lower(s) ==
  [i \in 1..Len(s) |-> IF s[i] \in DOMAIN UpperToLower THEN UpperToLower[s[i]] ELSE s[i]]

\* str.startswith(p)
startswith(s, p) ==
  /\ Len(s) >= Len(p)
  /\ SubSeq(s, 1, Len(p)) = p

\* sub in s
contains(s, sub) ==
  \E i \in 0..(Len(s) - Len(sub)) : SubSeq(s, i + 1, i + Len(sub)) = sub

\* s.index(c) for a single character, 1-based; 0 when absent
index(s, c) ==
  IF \E i \in 1..Len(s) : s[i] = c
  THEN CHOOSE i \in 1..Len(s) : s[i] = c /\ \A j \in 1..(i - 1) : s[j] # c
  ELSE 0

\* s.rindex(c) for a single character, 1-based; 0 when absent
rindex(s, c) ==
  IF \E i \in 1..Len(s) : s[i] = c
  THEN CHOOSE i \in 1..Len(s) : s[i] = c /\ \A j \in (i + 1)..Len(s) : s[j] # c
  ELSE 0

\* s[a:b] with 0-based Python bounds a, b >= 0: a bound past the end of s is
\* the end of s, and the slice is empty when b <= a
slice(s, a, b) ==
  LET stop == IF b > Len(s) THEN Len(s) ELSE b
  IN  IF stop <= a THEN <<>> ELSE SubSeq(s, a + 1, stop)

\* a Python for loop over the indices lo..hi: step(state, i) is the loop body.
\* The first half is evaluated before the second half starts.
RECURSIVE FoldLeft(_, _, _, _)
FoldLeft(step(_, _), st, lo, hi) ==
  IF lo > hi THEN st
  ELSE IF lo = hi THEN step(st, lo)
  ELSE LET mid == (lo + hi) \div 2
           left == FoldLeft(step, st, lo, mid)
       IN  IF left = left THEN FoldLeft(step, left, mid + 1, hi) ELSE st

\* str.strip(): the whitespace of the model's alphabet is the space
strip(s) ==
  IF \A i \in 1..Len(s) : s[i] = " " THEN <<>>
  ELSE LET first == CHOOSE i \in 1..Len(s) : s[i] # " " /\ \A j \in 1..(i - 1) : s[j] = " "
           final == CHOOSE i \in 1..Len(s) : s[i] # " " /\ \A j \in (i + 1)..Len(s) : s[j] = " "
       IN  SubSeq(s, first, final)

\* str.replace(old, new), old non-empty: the occurrences found left to right,
\* none overlapping the one before
replace(s, old, new) ==
  LET step(st, i) ==
        IF st.skip > 0 THEN [out |-> st.out, skip |-> st.skip - 1]
        ELSE IF i + Len(old) - 1 <= Len(s) /\ SubSeq(s, i, i + Len(old) - 1) = old
        THEN [out |-> st.out \o new, skip |-> Len(old) - 1]
        ELSE [out |-> Append(st.out, s[i]), skip |-> 0]
  IN  FoldLeft(step, [out |-> <<>>, skip |-> 0], 1, Len(s)).out

\* str.zfill(width): the zeros go after a leading sign
zfill(s, width) ==
  IF s # <<>> /\ s[1] \in {"+", "-"}
  THEN <<s[1]>> \o [i \in 1..(width - Len(s)) |-> "0"] \o Tail(s)
  ELSE [i \in 1..(width - Len(s)) |-> "0"] \o s

(***************************************************************************)
(* Python int: arbitrary precision.  An int is [neg, mag] with mag its     *)
(* magnitude as big-endian base-16 digits without leading zeros.           *)
(***************************************************************************)
BigNorm(m) ==
  LET nonzero == {i \in 1..Len(m) : m[i] # 0}
  IN  IF nonzero = {} THEN <<>>
      ELSE SubSeq(m, CHOOSE i \in nonzero : \A j \in nonzero : i <= j, Len(m))

RECURSIVE BigOfNat(_)
BigOfNat(n) == IF n = 0 THEN <<>> ELSE Append(BigOfNat(n \div 16), n % 16)

\* m * k + a for small k and a
BigMulAdd(m, k, a) ==
  LET step(st, i) ==
        LET d == m[Len(m) + 1 - i] * k + st.carry
        IN  [carry |-> d \div 16, out |-> <<d % 16>> \o st.out]
      r == FoldLeft(step, [carry |-> a, out |-> <<>>], 1, Len(m))
  IN  BigNorm(BigOfNat(r.carry) \o r.out)

\* long division of m by the small d: [q, r]
BigDivMod(m, d) ==
  LET step(st, i) ==
        LET cur == st.r * 16 + m[i]
        IN  [q |-> Append(st.q, cur \div d), r |-> cur % d]
      res == FoldLeft(step, [q |-> <<>>, r |-> 0], 1, Len(m))
  IN  [q |-> BigNorm(res.q), r |-> res.r]

BigLess(a, b) ==
  \/ Len(a) < Len(b)
  \/ /\ Len(a) = Len(b)
     /\ \E i \in 1..Len(a) : a[i] < b[i] /\ \A j \in 1..(i - 1) : a[j] = b[j]

\* m - 1 for m > 0, on digit strings of fixed length
BigDec(m) ==
  LET k == CHOOSE i \in 1..Len(m) : m[i] > 0 /\ \A j \in (i + 1)..Len(m) : m[j] = 0
  IN  [i \in 1..Len(m) |-> IF i < k THEN m[i] ELSE IF i = k THEN m[i] - 1 ELSE 15]

\* m + 1
BigInc(m) == BigMulAdd(m, 1, 1)

\* 2^k
BigPow2(k) ==
  LET lead == CASE k % 4 = 0 -> 1 [] k % 4 = 1 -> 2 [] k % 4 = 2 -> 4 [] OTHER -> 8
  IN  <<lead>> \o [i \in 1..(k \div 4) |-> 0]

PyInt(neg, mag) == [int |-> [neg |-> neg, mag |-> mag]]

DecDigits == <<"0", "1", "2", "3", "4", "5", "6", "7", "8", "9">>
HexDigits == <<"0", "1", "2", "3", "4", "5", "6", "7", "8", "9", "a", "b", "c", "d", "e", "f">>

IsDecDigit(c) == \E i \in 1..10 : DecDigits[i] = c
DecVal(c) == (CHOOSE i \in 1..10 : DecDigits[i] = c) - 1

\* the value of a hexadecimal digit of either case
HexValues ==
  [c \in {"0", "1", "2", "3", "4", "5", "6", "7", "8", "9", "a", "b", "c", "d", "e", "f",
          "A", "B", "C", "D", "E", "F"} |->
     (CHOOSE i \in 1..16 : HexDigits[i] = lower(<<c>>)[1]) - 1]

IsHexDigit(c) == c \in DOMAIN HexValues
HexVal(c) == HexValues[c]

\* an upper bound of the number of decimal digits of a 256-bit magnitude
MaxDecDigits == 78

\* the decimal digits of a magnitude, as str ("" for zero)
BigToDec(m) ==
  LET step(st, i) ==
        IF st.m = <<>> THEN st
        ELSE LET dm == BigDivMod(st.m, 10)
             IN  [m |-> dm.q, out |-> <<DecDigits[dm.r + 1]>> \o st.out]
  IN  FoldLeft(step, [m |-> m, out |-> <<>>], 1, MaxDecDigits).out

\* the magnitude of a string of decimal digits
BigOfDec(s) ==
  LET step(m, i) == BigMulAdd(m, 10, DecVal(s[i]))
  IN  FoldLeft(step, <<>>, 1, Len(s))

\* str(i) of a small natural number (an index)
RECURSIVE NatToDec(_)
NatToDec(n) ==
  IF n < 10 THEN <<DecDigits[n + 1]>>
  ELSE Append(NatToDec(n \div 10), DecDigits[(n % 10) + 1])

\* int(s) of a small natural number written in decimal digits
RECURSIVE DecToNat(_)
DecToNat(s) ==
  IF s = <<>> THEN 0 ELSE DecToNat(SubSeq(s, 1, Len(s) - 1)) * 10 + DecVal(s[Len(s)])

(***************************************************************************)
(* Python bytes: bytes.hex() and bytes.fromhex().                          *)
(***************************************************************************)
hex(b) ==
  [i \in 1..(2 * Len(b)) |->
     IF i % 2 = 1 THEN HexDigits[(b[(i + 1) \div 2] \div 16) + 1]
     ELSE HexDigits[(b[i \div 2] % 16) + 1]]

\* bytes.fromhex: [ok, bytes]; ok = FALSE is the ValueError.  Whitespace is
\* skipped between two bytes, never inside one.
fromhex(s) ==
  LET digits == SelectSeq(s, LAMBDA c : c # " ")
      between(i) == Cardinality({j \in 1..(i - 1) : s[j] # " "}) % 2 = 0
  IN  IF /\ Len(digits) % 2 = 0
         /\ \A i \in 1..Len(digits) : IsHexDigit(digits[i])
         /\ \A i \in 1..Len(s) : s[i] = " " => between(i)
      THEN [ok |-> TRUE,
            bytes |-> [k \in 1..(Len(digits) \div 2) |->
                         HexVal(digits[2 * k - 1]) * 16 + HexVal(digits[2 * k])]]
      ELSE [ok |-> FALSE, bytes |-> <<>>]

\* the 32-byte big-endian word of a magnitude below 2^256
WordBytes == 32

BigToWord(m) ==
  LET padded == [i \in 1..(2 * WordBytes - Len(m)) |-> 0] \o m
  IN  [i \in 1..WordBytes |-> padded[2 * i - 1] * 16 + padded[2 * i]]

\* the base-16 digits of a byte string, leading zeros kept
WordDigits(w) ==
  [i \in 1..(2 * Len(w)) |-> IF i % 2 = 1 THEN w[(i + 1) \div 2] \div 16 ELSE w[i \div 2] % 16]

NatToWord(n) == BigToWord(BigOfNat(n))

\* the natural number of a word, -1 when it is beyond any length of data
MaxOffset == 65536

WordToNat(w) ==
  LET m == BigNorm(WordDigits(w))
      step(n, i) == n * 16 + m[i]
  IN  IF ~BigLess(m, BigOfNat(MaxOffset)) THEN -1
      ELSE FoldLeft(step, 0, 1, Len(m))

(***************************************************************************)
(* Python values: str [str], int [int], bool [bool], bytes [bytes],        *)
(* list [list], tuple [tuple] and None.                                    *)
(***************************************************************************)
None == [none |-> TRUE]
PyStr(s) == [str |-> s]
PyBool(b) == [bool |-> b]
PyBytes(b) == [bytes |-> b]
PyList(l) == [list |-> l]
PyTuple(l) == [tuple |-> l]

IsStr(v) == DOMAIN v = {"str"}
IsInt(v) == DOMAIN v = {"int"}
IsBool(v) == DOMAIN v = {"bool"}
IsBytes(v) == DOMAIN v = {"bytes"}
IsList(v) == DOMAIN v = {"list"}
IsTuple(v) == DOMAIN v = {"tuple"}
IsNone(v) == DOMAIN v = {"none"}

\* the characters of code 32..126, in order (five of them by name)
AsciiTable == <<" ", "!", "<quote>", "<hash>", "<dollar>", "%", "&", "'", "(", ")", "*", "+", ",", "-", ".", "/", "0", "1", "2", "3", "4", "5", "6", "7", "8", "9", ":", ";", "<", "=", ">", "?", "@", "A", "B", "C", "D", "E", "F", "G", "H", "I", "J", "K", "L", "M", "N", "O", "P", "Q", "R", "S", "T", "U", "V", "W", "X", "Y", "Z", "[", "<backslash>", "]", "^", "_", "<backtick>", "a", "b", "c", "d", "e", "f", "g", "h", "i", "j", "k", "l", "m", "n", "o", "p", "q", "r", "s", "t", "u", "v", "w", "x", "y", "z", "{", "|", "}", "~">>
FirstAscii == 32

\* str.encode("utf-8") of text drawn from AsciiTable
utf8_encode(s) ==
  [i \in 1..Len(s) |-> (CHOOSE k \in 1..Len(AsciiTable) : AsciiTable[k] = s[i]) + FirstAscii - 1]

\* bytes.decode("utf-8"), strict: [ok, str]; a byte outside 32..126 stands
\* for an invalid sequence
utf8_decode(b) ==
  IF \A i \in 1..Len(b) : b[i] >= FirstAscii /\ b[i] < FirstAscii + Len(AsciiTable)
  THEN [ok |-> TRUE, str |-> [i \in 1..Len(b) |-> AsciiTable[b[i] - FirstAscii + 1]]]
  ELSE [ok |-> FALSE, str |-> <<>>]

(***************************************************************************)
(* eth_abi: the type strings the registry knows, of which the model has    *)
(* address, uintN, intN, bool, string, bytes, bytesN and T[].              *)
(***************************************************************************)
IsSize(digits) ==
  /\ digits # <<>>
  /\ Len(digits) <= 3
  /\ \A i \in 1..Len(digits) : IsDecDigit(digits[i])
  /\ digits[1] # "0"

RECURSIVE abi_type(_)
abi_type(t) ==
  IF Len(t) > 2 /\ SubSeq(t, Len(t) - 1, Len(t)) = <<"[", "]">>
  THEN LET elem == abi_type(SubSeq(t, 1, Len(t) - 2))
       IN  IF elem.kind = "unknown" THEN [kind |-> "unknown"]
           ELSE [kind |-> "array", elem |-> SubSeq(t, 1, Len(t) - 2)]
  ELSE IF t = <<"a", "d", "d", "r", "e", "s", "s">> THEN [kind |-> "address"]
  ELSE IF t = <<"b", "o", "o", "l">> THEN [kind |-> "bool"]
  ELSE IF t = <<"s", "t", "r", "i", "n", "g">> THEN [kind |-> "string"]
  ELSE IF t = <<"b", "y", "t", "e", "s">> THEN [kind |-> "bytes"]
  ELSE IF startswith(t, <<"u", "i", "n", "t">>) /\ IsSize(SubSeq(t, 5, Len(t)))
            /\ DecToNat(SubSeq(t, 5, Len(t))) % 8 = 0 /\ DecToNat(SubSeq(t, 5, Len(t))) <= 256
       THEN [kind |-> "uint", bits |-> DecToNat(SubSeq(t, 5, Len(t)))]
  ELSE IF startswith(t, <<"i", "n", "t">>) /\ IsSize(SubSeq(t, 4, Len(t)))
            /\ DecToNat(SubSeq(t, 4, Len(t))) % 8 = 0 /\ DecToNat(SubSeq(t, 4, Len(t))) <= 256
       THEN [kind |-> "int", bits |-> DecToNat(SubSeq(t, 4, Len(t)))]
  ELSE IF startswith(t, <<"b", "y", "t", "e", "s">>) /\ IsSize(SubSeq(t, 6, Len(t)))
            /\ DecToNat(SubSeq(t, 6, Len(t))) <= 32
       THEN [kind |-> "bytesN", size |-> DecToNat(SubSeq(t, 6, Len(t)))]
  ELSE [kind |-> "unknown"]

abi_is_dynamic(t) == abi_type(t).kind \in {"string", "bytes", "array"}

Zeros(n) == [i \in 1..n |-> 0]

ceil32(n) == ((n + 31) \div 32) * 32

AbiFail == [ok |-> FALSE, bytes |-> <<>>]
AbiBytes(b) == [ok |-> TRUE, bytes |-> b]

\* is_address on a str: an optional 0x and 40 hex digits
is_hex_address(s) ==
  LET body == IF startswith(lower(s), <<"0", "x">>) THEN SubSeq(s, 3, Len(s)) ELSE s
  IN  Len(body) = 40 /\ \A i \in 1..40 : IsHexDigit(body[i])

address_bytes(s) ==
  fromhex(IF startswith(lower(s), <<"0", "x">>) THEN SubSeq(s, 3, Len(s)) ELSE s).bytes

int_in_range(ty, i) ==
  IF ty.kind = "uint" THEN ~i.neg /\ BigLess(i.mag, BigPow2(ty.bits))
  ELSE IF i.neg THEN ~BigLess(BigPow2(ty.bits - 1), i.mag)
  ELSE BigLess(i.mag, BigPow2(ty.bits - 1))

\* the two's-complement word of an int in range
int_word(i) ==
  IF i.neg /\ i.mag # <<>>
  THEN LET w == BigToWord(BigNorm(BigDec(i.mag)))
       IN  [k \in 1..WordBytes |-> 255 - w[k]]
  ELSE BigToWord(i.mag)

\* the int of a word read as unsigned, or as two's complement
word_int(w, signed) ==
  IF signed /\ w[1] >= 128
  THEN PyInt(TRUE, BigNorm(BigInc(WordDigits([k \in 1..WordBytes |-> 255 - w[k]]))))
  ELSE PyInt(FALSE, BigNorm(WordDigits(w)))

\* eth_abi.encode of one value: [ok, bytes], ok = FALSE when the encoder
\* raises; abi_encode is eth_abi.encode(types, args)
RECURSIVE abi_encode_single(_, _)
RECURSIVE abi_encode_heads(_, _, _, _)
RECURSIVE abi_encode_tails(_, _, _)

abi_encode_tuple(types, values) ==
  IF \E k \in 1..Len(types) : ~abi_encode_single(types[k], values[k]).ok THEN AbiFail
  ELSE AbiBytes(abi_encode_heads(types, values, 1, WordBytes * Len(types))
                  \o abi_encode_tails(types, values, 1))

\* the heads from element k on; tail_at is where the next tail starts
abi_encode_heads(types, values, k, tail_at) ==
  IF k > Len(types) THEN <<>>
  ELSE LET enc == abi_encode_single(types[k], values[k]).bytes
       IN  IF abi_is_dynamic(types[k])
           THEN NatToWord(tail_at) \o abi_encode_heads(types, values, k + 1, tail_at + Len(enc))
           ELSE enc \o abi_encode_heads(types, values, k + 1, tail_at)

abi_encode_tails(types, values, k) ==
  IF k > Len(types) THEN <<>>
  ELSE (IF abi_is_dynamic(types[k]) THEN abi_encode_single(types[k], values[k]).bytes ELSE <<>>)
         \o abi_encode_tails(types, values, k + 1)

abi_encode_single(t, v) ==
  LET ty == abi_type(t)
  IN  CASE ty.kind = "address" ->
             IF IsStr(v) /\ is_hex_address(v.str)
             THEN AbiBytes(Zeros(12) \o address_bytes(v.str)) ELSE AbiFail
        [] ty.kind \in {"uint", "int"} ->
             IF IsInt(v) /\ int_in_range(ty, v.int)
             THEN AbiBytes(int_word(v.int)) ELSE AbiFail
        [] ty.kind = "bool" ->
             IF IsBool(v) THEN AbiBytes(NatToWord(IF v.bool THEN 1 ELSE 0)) ELSE AbiFail
        [] ty.kind = "string" ->
             IF IsStr(v)
             THEN LET b == utf8_encode(v.str)
                  IN  AbiBytes(NatToWord(Len(b)) \o b \o Zeros(ceil32(Len(b)) - Len(b)))
             ELSE AbiFail
        [] ty.kind = "bytes" ->
             IF IsBytes(v)
             THEN AbiBytes(NatToWord(Len(v.bytes)) \o v.bytes
                             \o Zeros(ceil32(Len(v.bytes)) - Len(v.bytes)))
             ELSE AbiFail
        [] ty.kind = "bytesN" ->
             IF IsBytes(v) /\ Len(v.bytes) <= ty.size
             THEN AbiBytes(v.bytes \o Zeros(WordBytes - Len(v.bytes))) ELSE AbiFail
        [] ty.kind = "array" ->
             IF IsList(v) \/ IsTuple(v)
             THEN LET items == IF IsList(v) THEN v.list ELSE v.tuple
                      body == abi_encode_tuple([k \in 1..Len(items) |-> ty.elem], items)
                  IN  IF body.ok THEN AbiBytes(NatToWord(Len(items)) \o body.bytes) ELSE AbiFail
             ELSE AbiFail
        [] OTHER -> AbiFail

abi_encode(types, args) ==
  IF \E k \in 1..Len(types) : abi_type(types[k]).kind = "unknown" THEN AbiFail
  ELSE abi_encode_tuple(types, args)

\* eth_abi.decode(types, data), strict: [ok, values], ok = FALSE when the
\* decoder raises.  The stream is data; positions are 0-based offsets.
DecFail == [ok |-> FALSE, value |-> None]
DecValue(v) == [ok |-> TRUE, value |-> v]

has_bytes(data, pos, n) == pos >= 0 /\ pos + n <= Len(data)
read(data, pos, n) == SubSeq(data, pos + 1, pos + n)

\* a static value from its word
abi_decode_word(ty, w) ==
  CASE ty.kind = "address" ->
         IF SubSeq(w, 1, 12) = Zeros(12)
         THEN DecValue(PyStr(<<"0", "x">> \o hex(SubSeq(w, 13, 32)))) ELSE DecFail
    [] ty.kind \in {"uint", "int"} ->
         LET i == word_int(w, ty.kind = "int")
         IN  IF int_in_range(ty, i.int) THEN DecValue(i) ELSE DecFail
    [] ty.kind = "bool" ->
         IF w = NatToWord(0) THEN DecValue(PyBool(FALSE))
         ELSE IF w = NatToWord(1) THEN DecValue(PyBool(TRUE))
         ELSE DecFail
    [] ty.kind = "bytesN" ->
         IF SubSeq(w, ty.size + 1, WordBytes) = Zeros(WordBytes - ty.size)
         THEN DecValue(PyBytes(SubSeq(w, 1, ty.size))) ELSE DecFail
    [] OTHER -> DecFail

RECURSIVE abi_decode_tail(_, _, _)
RECURSIVE abi_decode_items(_, _, _, _)

\* the elements from k on of a tuple whose heads start at base: [ok, values]
abi_decode_items(types, data, base, k) ==
  IF k > Len(types) THEN [ok |-> TRUE, values |-> <<>>]
  ELSE LET at == base + WordBytes * (k - 1)
       IN  IF ~has_bytes(data, at, WordBytes) THEN [ok |-> FALSE, values |-> <<>>]
           ELSE LET w == read(data, at, WordBytes)
                    one == IF abi_is_dynamic(types[k])
                           THEN IF WordToNat(w) < 0 THEN DecFail
                                ELSE abi_decode_tail(types[k], data, base + WordToNat(w))
                           ELSE abi_decode_word(abi_type(types[k]), w)
                IN  IF ~one.ok THEN [ok |-> FALSE, values |-> <<>>]
                    ELSE LET rest == abi_decode_items(types, data, base, k + 1)
                         IN  IF rest.ok
                             THEN [ok |-> TRUE, values |-> <<one.value>> \o rest.values]
                             ELSE rest

\* a dynamic value whose encoding starts at pos
abi_decode_tail(t, data, pos) ==
  LET ty == abi_type(t)
  IN  IF ~has_bytes(data, pos, WordBytes) THEN DecFail
      ELSE LET n == WordToNat(read(data, pos, WordBytes))
           IN  IF n < 0 THEN DecFail
               ELSE IF ty.kind \in {"string", "bytes"}
               THEN IF ~has_bytes(data, pos + WordBytes, ceil32(n)) THEN DecFail
                    ELSE LET padded == read(data, pos + WordBytes, ceil32(n))
                         IN  IF SubSeq(padded, n + 1, ceil32(n)) # Zeros(ceil32(n) - n) THEN DecFail
                             ELSE IF ty.kind = "bytes" THEN DecValue(PyBytes(SubSeq(padded, 1, n)))
                             ELSE LET text == utf8_decode(SubSeq(padded, 1, n))
                                  IN  IF text.ok THEN DecValue(PyStr(text.str)) ELSE DecFail
               ELSE IF ~has_bytes(data, pos + WordBytes, WordBytes * n) THEN DecFail
                    ELSE LET items == abi_decode_items([k \in 1..n |-> ty.elem], data,
                                                       pos + WordBytes, 1)
                         IN  IF items.ok THEN DecValue(PyTuple(items.values)) ELSE DecFail

abi_decode(types, data) ==
  IF \E k \in 1..Len(types) : abi_type(types[k]).kind = "unknown"
  THEN [ok |-> FALSE, values |-> <<>>]
  ELSE abi_decode_items(types, data, 0, 1)

(***************************************************************************)
(* signature_lookup.py                                                     *)
(***************************************************************************)
COMMON_SIGNATURES ==
  ( <<"0", "x", "a", "9", "0", "5", "9", "c", "b", "b">> :> [name |-> <<"t", "r", "a", "n", "s", "f", "e", "r">>, signature |-> <<"t", "r", "a", "n", "s", "f", "e", "r", "(", "a", "d", "d", "r", "e", "s", "s", ",", "u", "i", "n", "t", "2", "5", "6", ")">>,
                      params |-> << <<"a", "d", "d", "r", "e", "s", "s", " ", "r", "e", "c", "i", "p", "i", "e", "n", "t">>, <<"u", "i", "n", "t", "2", "5", "6", " ", "a", "m", "o", "u", "n", "t">> >>] )
  @@ ( <<"0", "x", "0", "9", "5", "e", "a", "7", "b", "3">> :> [name |-> <<"a", "p", "p", "r", "o", "v", "e">>, signature |-> <<"a", "p", "p", "r", "o", "v", "e", "(", "a", "d", "d", "r", "e", "s", "s", ",", "u", "i", "n", "t", "2", "5", "6", ")">>,
                      params |-> << <<"a", "d", "d", "r", "e", "s", "s", " ", "s", "p", "e", "n", "d", "e", "r">>, <<"u", "i", "n", "t", "2", "5", "6", " ", "a", "m", "o", "u", "n", "t">> >>] )
  @@ ( <<"0", "x", "2", "3", "b", "8", "7", "2", "d", "d">> :> [name |-> <<"t", "r", "a", "n", "s", "f", "e", "r", "F", "r", "o", "m">>, signature |-> <<"t", "r", "a", "n", "s", "f", "e", "r", "F", "r", "o", "m", "(", "a", "d", "d", "r", "e", "s", "s", ",", "a", "d", "d", "r", "e", "s", "s", ",", "u", "i", "n", "t", "2", "5", "6", ")">>,
                      params |-> << <<"a", "d", "d", "r", "e", "s", "s", " ", "s", "e", "n", "d", "e", "r">>, <<"a", "d", "d", "r", "e", "s", "s", " ", "r", "e", "c", "i", "p", "i", "e", "n", "t">>, <<"u", "i", "n", "t", "2", "5", "6", " ", "a", "m", "o", "u", "n", "t">> >>] )
  @@ ( <<"0", "x", "7", "0", "a", "0", "8", "2", "3", "1">> :> [name |-> <<"b", "a", "l", "a", "n", "c", "e", "O", "f">>, signature |-> <<"b", "a", "l", "a", "n", "c", "e", "O", "f", "(", "a", "d", "d", "r", "e", "s", "s", ")">>,
                      params |-> << <<"a", "d", "d", "r", "e", "s", "s", " ", "a", "c", "c", "o", "u", "n", "t">> >>] )
  @@ ( <<"0", "x", "1", "8", "1", "6", "0", "d", "d", "d">> :> [name |-> <<"t", "o", "t", "a", "l", "S", "u", "p", "p", "l", "y">>, signature |-> <<"t", "o", "t", "a", "l", "S", "u", "p", "p", "l", "y", "(", ")">>, params |-> << >>] )
  @@ ( <<"0", "x", "d", "d", "6", "2", "e", "d", "3", "e">> :> [name |-> <<"a", "l", "l", "o", "w", "a", "n", "c", "e">>, signature |-> <<"a", "l", "l", "o", "w", "a", "n", "c", "e", "(", "a", "d", "d", "r", "e", "s", "s", ",", "a", "d", "d", "r", "e", "s", "s", ")">>,
                      params |-> << <<"a", "d", "d", "r", "e", "s", "s", " ", "o", "w", "n", "e", "r">>, <<"a", "d", "d", "r", "e", "s", "s", " ", "s", "p", "e", "n", "d", "e", "r">> >>] )
  @@ ( <<"0", "x", "3", "1", "3", "c", "e", "5", "6", "7">> :> [name |-> <<"d", "e", "c", "i", "m", "a", "l", "s">>, signature |-> <<"d", "e", "c", "i", "m", "a", "l", "s", "(", ")">>, params |-> << >>] )
  @@ ( <<"0", "x", "0", "6", "f", "d", "d", "e", "0", "3">> :> [name |-> <<"n", "a", "m", "e">>, signature |-> <<"n", "a", "m", "e", "(", ")">>, params |-> << >>] )
  @@ ( <<"0", "x", "9", "5", "d", "8", "9", "b", "4", "1">> :> [name |-> <<"s", "y", "m", "b", "o", "l">>, signature |-> <<"s", "y", "m", "b", "o", "l", "(", ")">>, params |-> << >>] )
  @@ ( <<"0", "x", "7", "f", "f", "3", "6", "a", "b", "5">> :> [name |-> <<"s", "w", "a", "p", "E", "x", "a", "c", "t", "E", "T", "H", "F", "o", "r", "T", "o", "k", "e", "n", "s">>,
                      signature |-> <<"s", "w", "a", "p", "E", "x", "a", "c", "t", "E", "T", "H", "F", "o", "r", "T", "o", "k", "e", "n", "s", "(", "u", "i", "n", "t", "2", "5", "6", ",", "a", "d", "d", "r", "e", "s", "s", "[", "]", ",", "a", "d", "d", "r", "e", "s", "s", ",", "u", "i", "n", "t", "2", "5", "6", ")">>,
                      params |-> << <<"u", "i", "n", "t", "2", "5", "6", " ", "a", "m", "o", "u", "n", "t", "O", "u", "t", "M", "i", "n">>, <<"a", "d", "d", "r", "e", "s", "s", "[", "]", " ", "p", "a", "t", "h">>, <<"a", "d", "d", "r", "e", "s", "s", " ", "t", "o">>,
                                    <<"u", "i", "n", "t", "2", "5", "6", " ", "d", "e", "a", "d", "l", "i", "n", "e">> >>] )
  @@ ( <<"0", "x", "3", "8", "e", "d", "1", "7", "3", "9">> :> [name |-> <<"s", "w", "a", "p", "E", "x", "a", "c", "t", "T", "o", "k", "e", "n", "s", "F", "o", "r", "T", "o", "k", "e", "n", "s">>,
                      signature |-> <<"s", "w", "a", "p", "E", "x", "a", "c", "t", "T", "o", "k", "e", "n", "s", "F", "o", "r", "T", "o", "k", "e", "n", "s", "(", "u", "i", "n", "t", "2", "5", "6", ",", "u", "i", "n", "t", "2", "5", "6", ",", "a", "d", "d", "r", "e", "s", "s", "[", "]", ",", "a", "d", "d", "r", "e", "s", "s", ",", "u", "i", "n", "t", "2", "5", "6", ")">>,
                      params |-> << <<"u", "i", "n", "t", "2", "5", "6", " ", "a", "m", "o", "u", "n", "t", "I", "n">>, <<"u", "i", "n", "t", "2", "5", "6", " ", "a", "m", "o", "u", "n", "t", "O", "u", "t", "M", "i", "n">>, <<"a", "d", "d", "r", "e", "s", "s", "[", "]", " ", "p", "a", "t", "h">>,
                                    <<"a", "d", "d", "r", "e", "s", "s", " ", "t", "o">>, <<"u", "i", "n", "t", "2", "5", "6", " ", "d", "e", "a", "d", "l", "i", "n", "e">> >>] )
  @@ ( <<"0", "x", "c", "0", "4", "b", "8", "d", "5", "9">> :> [name |-> <<"e", "x", "a", "c", "t", "I", "n", "p", "u", "t", "S", "i", "n", "g", "l", "e">>,
                      signature |-> <<"e", "x", "a", "c", "t", "I", "n", "p", "u", "t", "S", "i", "n", "g", "l", "e", "(", "(", "a", "d", "d", "r", "e", "s", "s", ",", "a", "d", "d", "r", "e", "s", "s", ",", "u", "i", "n", "t", "2", "4", ",", "a", "d", "d", "r", "e", "s", "s", ",", "u", "i", "n", "t", "2", "5", "6", ",", "u", "i", "n", "t", "2", "5", "6", ",", "u", "i", "n", "t", "2", "5", "6", ",", "u", "i", "n", "t", "1", "6", "0", ")", ")">>,
                      params |-> << <<"t", "u", "p", "l", "e", " ", "p", "a", "r", "a", "m", "s">> >>] )
  @@ ( <<"0", "x", "a", "c", "9", "6", "5", "0", "d", "8">> :> [name |-> <<"m", "u", "l", "t", "i", "c", "a", "l", "l">>, signature |-> <<"m", "u", "l", "t", "i", "c", "a", "l", "l", "(", "b", "y", "t", "e", "s", "[", "]", ")">>,
                      params |-> << <<"b", "y", "t", "e", "s", "[", "]", " ", "d", "a", "t", "a">> >>] )

\* a variant of normalize_selector that keeps the letter case
normalize_prefix_only(function_selector) ==
  IF ~startswith(function_selector, <<"0", "x">>) THEN <<"0", "x">> \o function_selector
  ELSE function_selector

\* lookup_signature, lines 101-104: the normalized selector
normalize_selector(function_selector) ==
  LET selector == lower(function_selector)
  IN  IF ~startswith(selector, <<"0", "x">>) THEN <<"0", "x">> \o selector ELSE selector

extract_function_name(signature) ==
  IF contains(signature, <<"(">>)
  THEN SubSeq(signature, 1, index(signature, "(") - 1)
  ELSE signature

\* _parse_parameters, lines 152-181: the loop state is [depth, current, params]
parse_parameters(signature) ==
  IF ~contains(signature, <<"(">>) \/ ~contains(signature, <<")">>) THEN <<>>
  ELSE LET params_str == slice(signature, index(signature, "("), rindex(signature, ")") - 1)
           step(st, i) ==
             LET char == params_str[i]
             IN  IF char = "," /\ st.depth = 0
                 THEN [depth |-> st.depth,
                       current |-> <<>>,
                       params |-> IF st.current # <<>>
                                  THEN Append(st.params, strip(st.current))
                                  ELSE st.params]
                 ELSE [depth |-> IF char = "(" THEN st.depth + 1
                                 ELSE IF char = ")" THEN st.depth - 1
                                 ELSE st.depth,
                       current |-> Append(st.current, char),
                       params |-> st.params]
           st == FoldLeft(step, [depth |-> 0, current |-> <<>>, params |-> <<>>],
                          1, Len(params_str))
       IN  IF params_str = <<>> THEN <<>>
           ELSE IF st.current # <<>>
                THEN Append(st.params, strip(st.current))
                ELSE st.params

(***************************************************************************)
(* The remote directory service: what one GET can come back with.          *)
(***************************************************************************)
RemoteSignatures == { <<"m", "i", "n", "t", "(", "a", "d", "d", "r", "e", "s", "s", ",", "u", "i", "n", "t", "2", "5", "6", ")">>, <<"b", "u", "r", "n", "(", "u", "i", "n", "t", "2", "5", "6", ")">>, <<"g", "a", "r", "b", "a", "g", "e">> }

\* one element of the "results" array of the response body
ResultItems ==
  { [has_text |-> TRUE, text_signature |-> s] : s \in RemoteSignatures }
    \cup { [has_text |-> FALSE, text_signature |-> <<>>] }

ResultLists ==
  { <<>> } \cup { <<a>> : a \in ResultItems }
    \cup { <<a, [has_text |-> TRUE, text_signature |-> <<"b", "u", "r", "n", "(", "u", "i", "n", "t", "2", "5", "6", ")">>]>> :
             a \in { [has_text |-> TRUE, text_signature |-> <<"m", "i", "n", "t", "(", "a", "d", "d", "r", "e", "s", "s", ",", "u", "i", "n", "t", "2", "5", "6", ")">>],
                     [has_text |-> FALSE, text_signature |-> <<>>] } }

\* kind "neterror"/"timeout": session.get raises; kind "http": a response with
\* a status and a body that is JSON or not, with or without a "results" key
RemoteResponses ==
  { [kind |-> k, status |-> 0, json |-> FALSE, has_results |-> FALSE, results |-> <<>>] :
      k \in {"neterror", "timeout"} }
    \cup { [kind |-> "http", status |-> 500, json |-> FALSE, has_results |-> FALSE, results |-> <<>>] }
    \cup { [kind |-> "http", status |-> 404, json |-> TRUE, has_results |-> TRUE,
            results |-> << [has_text |-> TRUE, text_signature |-> <<"m", "i", "n", "t", "(", "a", "d", "d", "r", "e", "s", "s", ",", "u", "i", "n", "t", "2", "5", "6", ")">>] >>] }
    \cup { [kind |-> "http", status |-> 200, json |-> FALSE, has_results |-> FALSE, results |-> <<>>] }
    \cup { [kind |-> "http", status |-> 200, json |-> TRUE, has_results |-> FALSE, results |-> <<>>] }
    \cup { [kind |-> "http", status |-> 200, json |-> TRUE, has_results |-> TRUE, results |-> r] :
             r \in ResultLists }

\* a variant of status_ok that takes every status for a hit
status_any(status) == status # 0

\* line 125: the status of a response that is read
status_ok(status) == status = 200

\* the responses of the directory model: one of each kind
DirectoryResponses ==
  { r \in RemoteResponses :
      /\ r.status # 500
      /\ Len(r.results) = 2 => r.results[1].has_text
      /\ Len(r.results) = 1 /\ r.results[1].has_text
         => r.results[1].text_signature # <<"g", "a", "r", "b", "a", "g", "e">> }

\* lines 125-134: the signature_info built from the response, or None when the
\* response is not a hit (an exception is caught at line 140)
remote_signature_info(response) ==
  IF response.kind # "http" THEN None
  ELSE IF ~status_ok(response.status) THEN None
  ELSE IF ~response.json THEN None
  ELSE IF ~response.has_results \/ response.results = <<>> THEN None
  ELSE LET result == response.results[1]
       IN  IF ~result.has_text THEN None
           ELSE [name |-> extract_function_name(result.text_signature),
                 signature |-> result.text_signature,
                 params |-> parse_parameters(result.text_signature)]

\* a variant of lookup_local that leaves out the built-in table
lookup_cache_only(selector) ==
  IF selector \in DOMAIN cache
  THEN [found |-> TRUE, info |-> cache[selector]]
  ELSE [found |-> FALSE, info |-> None]

\* lines 106-114: the part of lookup_signature before the remote call;
\* found = FALSE means the call goes on to the remote query
lookup_local(selector) ==
  IF selector \in DOMAIN COMMON_SIGNATURES
  THEN [found |-> TRUE, info |-> COMMON_SIGNATURES[selector]]
  ELSE IF selector \in DOMAIN cache
       THEN [found |-> TRUE, info |-> cache[selector]]
       ELSE [found |-> FALSE, info |-> None]

\* a variant of cache_after that stores nothing
cache_unwritten(selector, signature_info) == cache

\* lines 136-144: the cache after the response
cache_after(selector, signature_info) ==
  IF signature_info = None THEN cache
  ELSE [s \in DOMAIN cache \cup {selector} |->
          IF s = selector THEN signature_info ELSE cache[s]]

(***************************************************************************)
(* Python conversions of a value: int(), bool(), str().                    *)
(***************************************************************************)
\* int(value): [ok, value]; ok = FALSE is the TypeError or ValueError
py_int(value) ==
  IF IsInt(value) THEN [ok |-> TRUE, value |-> value]
  ELSE IF IsBool(value)
  THEN [ok |-> TRUE, value |-> PyInt(FALSE, IF value.bool THEN <<1>> ELSE <<>>)]
  ELSE IF IsStr(value)
  THEN LET text == strip(value.str)
           signed == text # <<>> /\ text[1] \in {"+", "-"}
           digits == IF signed THEN Tail(text) ELSE text
       IN  IF digits # <<>> /\ \A i \in 1..Len(digits) : IsDecDigit(digits[i])
           THEN [ok |-> TRUE,
                 value |-> PyInt(signed /\ text[1] = "-" /\ BigOfDec(digits) # <<>>,
                                 BigOfDec(digits))]
           ELSE [ok |-> FALSE, value |-> None]
  ELSE [ok |-> FALSE, value |-> None]

\* bool(value): truthiness
py_bool(value) ==
  CASE IsBool(value) -> value.bool
    [] IsInt(value) -> value.int.mag # <<>>
    [] IsStr(value) -> value.str # <<>>
    [] IsBytes(value) -> value.bytes # <<>>
    [] IsList(value) -> value.list # <<>>
    [] IsTuple(value) -> value.tuple # <<>>
    [] OTHER -> FALSE

int_text(i) ==
  IF i.mag = <<>> THEN <<"0">>
  ELSE (IF i.neg THEN <<"-">> ELSE <<>>) \o BigToDec(i.mag)

\* repr(value) of a value that came from JSON: str (without quotes or
\* backslashes in it), int, bool, None, list
RECURSIVE py_repr(_)
py_repr(value) ==
  CASE IsStr(value) -> <<"'">> \o value.str \o <<"'">>
    [] IsInt(value) -> int_text(value.int)
    [] IsBool(value) -> IF value.bool THEN <<"T", "r", "u", "e">> ELSE <<"F", "a", "l", "s", "e">>
    [] IsNone(value) -> <<"N", "o", "n", "e">>
    [] IsList(value) ->
         LET step(out, i) ==
               out \o (IF i > 1 THEN <<",", " ">> ELSE <<>>) \o py_repr(value.list[i])
         IN  <<"[">> \o FoldLeft(step, <<>>, 1, Len(value.list)) \o <<"]">>

\* str(value)
py_str(value) == IF IsStr(value) THEN value.str ELSE py_repr(value)

(***************************************************************************)
(* function_encoder.py                                                     *)
(***************************************************************************)
\* keccak(text=sig)[:4].hex() of the signatures the model encodes
keccak4 ==
  ( <<"t", "r", "a", "n", "s", "f", "e", "r", "(", "a", "d", "d", "r", "e", "s", "s", ",", "u", "i", "n", "t", "2", "5", "6", ")">> :> <<"a", "9", "0", "5", "9", "c", "b", "b">> )
  @@ ( <<"s", "w", "a", "p", "E", "x", "a", "c", "t", "E", "T", "H", "F", "o", "r", "T", "o", "k", "e", "n", "s", "(", "u", "i", "n", "t", "2", "5", "6", ",", "a", "d", "d", "r", "e", "s", "s", "[", "]", ",", "a", "d", "d", "r", "e", "s", "s", ",", "u", "i", "n", "t", "2", "5", "6", ")">> :> <<"7", "f", "f", "3", "6", "a", "b", "5">> )
  @@ ( <<"m", "u", "l", "t", "i", "c", "a", "l", "l", "(", "b", "y", "t", "e", "s", "[", "]", ")">> :> <<"a", "c", "9", "6", "5", "0", "d", "8">> )
  @@ ( <<"t", "o", "t", "a", "l", "S", "u", "p", "p", "l", "y", "(", ")">> :> <<"1", "8", "1", "6", "0", "d", "d", "d">> )
  @@ ( <<"m", "i", "n", "t", "(", "a", "d", "d", "r", "e", "s", "s", ",", "u", "i", "n", "t", "2", "5", "6", ")">> :> <<"4", "0", "c", "1", "0", "f", "1", "9">> )
  @@ ( <<"b", "u", "r", "n", "(", "u", "i", "n", "t", "2", "5", "6", ")">> :> <<"4", "2", "9", "6", "6", "c", "6", "8">> )
  @@ ( <<"s", "e", "t", "V", "a", "l", "u", "e", "s", "(", "u", "i", "n", "t", "2", "5", "6", "[", "]", ")">> :> <<"6", "d", "a", "2", "c", "5", "d", "0">> )
  @@ ( <<"s", "e", "t", "F", "l", "a", "g", "(", "b", "o", "o", "l", ")">> :> <<"3", "9", "2", "7", "f", "6", "a", "f">> )
  @@ ( <<"s", "e", "t", "F", "l", "a", "g", "s", "(", "b", "o", "o", "l", "[", "]", ")">> :> <<"d", "a", "4", "6", "e", "c", "3", "3">> )
  @@ ( <<"s", "e", "t", "N", "a", "m", "e", "(", "s", "t", "r", "i", "n", "g", ")">> :> <<"c", "4", "7", "f", "0", "0", "2", "7">> )
  @@ ( <<"s", "e", "t", "N", "a", "m", "e", "s", "(", "s", "t", "r", "i", "n", "g", "[", "]", ")">> :> <<"3", "8", "4", "0", "c", "2", "1", "a">> )
  @@ ( <<"s", "t", "o", "r", "e", "(", "b", "y", "t", "e", "s", ")">> :> <<"b", "3", "7", "4", "0", "1", "2", "b">> )
  @@ ( <<"s", "e", "t", "I", "n", "t", "(", "i", "n", "t", "2", "5", "6", ")">> :> <<"7", "4", "7", "5", "8", "6", "b", "8">> )
  @@ ( <<"t", "r", "a", "n", "s", "f", "e", "r">> :> <<"b", "4", "8", "3", "a", "f", "d", "3">> )

get_function_selector(function_signature) ==
  keccak4[replace(function_signature, <<" ">>, <<>>)]

\* a variant of depth_after that counts parentheses only
depth_after_round_only(depth, char) ==
  IF char = "(" THEN depth + 1
  ELSE IF char = ")" THEN depth - 1
  ELSE depth

\* lines 102-105: the depth after a character that is kept
depth_after(depth, char) ==
  IF char \in {"(", "["} THEN depth + 1
  ELSE IF char \in {")", "]"} THEN depth - 1
  ELSE depth

\* _extract_param_types, lines 79-111: the loop state is [depth, current, types]
extract_param_types(function_signature) ==
  IF ~contains(function_signature, <<"(">>) \/ ~contains(function_signature, <<")">>) THEN <<>>
  ELSE LET params_str == slice(function_signature, index(function_signature, "("),
                               rindex(function_signature, ")") - 1)
           step(st, i) ==
             LET char == params_str[i]
             IN  IF char = "," /\ st.depth = 0
                 THEN [depth |-> st.depth,
                       current |-> <<>>,
                       types |-> IF st.current # <<>>
                                 THEN Append(st.types, strip(st.current))
                                 ELSE st.types]
                 ELSE [depth |-> depth_after(st.depth, char),
                       current |-> Append(st.current, char),
                       types |-> st.types]
           st == FoldLeft(step, [depth |-> 0, current |-> <<>>, types |-> <<>>],
                          1, Len(params_str))
       IN  IF params_str = <<>> THEN <<>>
           ELSE IF st.current # <<>>
                THEN Append(st.types, strip(st.current))
                ELSE st.types

\* one turn of the loop of _normalize_parameters, lines 121-168: [ok, value];
\* ok = FALSE when the turn raises
RECURSIVE normalize_parameter(_, _)
normalize_parameter(param_type, value) ==
  IF param_type = <<"a", "d", "d", "r", "e", "s", "s">>
  THEN IF IsStr(value)
       THEN LET addr == replace(lower(value.str), <<"0", "x">>, <<>>)
            IN  [ok |-> TRUE,
                 value |-> PyStr(<<"0", "x">> \o (IF Len(addr) < 40 THEN zfill(addr, 40) ELSE addr))]
       ELSE [ok |-> TRUE, value |-> value]
  ELSE IF contains(param_type, <<"b", "y", "t", "e", "s">>)
  THEN IF IsStr(value)
       THEN LET b == fromhex(replace(value.str, <<"0", "x">>, <<>>))
            IN  [ok |-> b.ok, value |-> IF b.ok THEN PyBytes(b.bytes) ELSE None]
       ELSE [ok |-> TRUE, value |-> value]
  ELSE IF contains(param_type, <<"u", "i", "n", "t">>) \/ contains(param_type, <<"i", "n", "t">>)
  THEN py_int(value)
  ELSE IF param_type = <<"b", "o", "o", "l">>
  THEN [ok |-> TRUE, value |-> PyBool(py_bool(value))]
  ELSE IF param_type = <<"s", "t", "r", "i", "n", "g">>
  THEN [ok |-> TRUE, value |-> PyStr(py_str(value))]
  ELSE IF contains(param_type, <<"[", "]">>)
  THEN IF IsList(value)
       THEN LET element_type == replace(param_type, <<"[", "]">>, <<>>)
                items == [k \in 1..Len(value.list) |->
                            normalize_parameter(element_type, value.list[k])]
            IN  IF \A k \in 1..Len(items) : items[k].ok
                THEN [ok |-> TRUE, value |-> PyList([k \in 1..Len(items) |-> items[k].value])]
                ELSE [ok |-> FALSE, value |-> None]
       ELSE [ok |-> TRUE, value |-> value]
  ELSE [ok |-> TRUE, value |-> value]

\* _normalize_parameters: [ok, values] over zip(param_types, parameters)
normalize_parameters(param_types, parameters) ==
  LET n == IF Len(param_types) < Len(parameters) THEN Len(param_types) ELSE Len(parameters)
      items == [k \in 1..n |-> normalize_parameter(param_types[k], parameters[k])]
  IN  IF \A k \in 1..n : items[k].ok
      THEN [ok |-> TRUE, values |-> [k \in 1..n |-> items[k].value]]
      ELSE [ok |-> FALSE, values |-> <<>>]

\* the result of the except clause, lines 59-66
encoding_failed(function_signature, parameters, exc) ==
  [error |-> <<"Encoding failed", exc>>,
   function_signature |-> function_signature,
   parameters |-> parameters,
   encoded |-> FALSE]

\* lines 49-57: [ret, steps], steps the calls made, given what
\* _normalize_parameters and encode gave
encoded_result(function_signature, parameters, selector, normalized_params, encoded_params) ==
  IF ~normalized_params.ok
  THEN [ret |-> encoding_failed(function_signature, parameters, "normalize"),
        steps |-> <<"normalize">>]
  ELSE IF ~encoded_params.ok
  THEN [ret |-> encoding_failed(function_signature, parameters, "encode"),
        steps |-> <<"normalize", "encode">>]
  ELSE [ret |-> [calldata |-> <<"0", "x">> \o selector \o hex(encoded_params.bytes),
                 function_selector |-> <<"0", "x">> \o selector,
                 function_signature |-> function_signature,
                 parameters |-> parameters,
                 encoded |-> TRUE],
        steps |-> <<"normalize", "encode">>]

\* lines 46-57, given normalized_params
encode_normalized(function_signature, parameters, selector, param_types, normalized_params) ==
  encoded_result(function_signature, parameters, selector, normalized_params,
                 abi_encode(param_types, normalized_params.values))

\* lines 43-57
encode_checked(function_signature, parameters, selector, param_types) ==
  encode_normalized(function_signature, parameters, selector, param_types,
                    normalize_parameters(param_types, parameters))

\* lines 37-57
encode_counted(function_signature, parameters, selector, param_types) ==
  IF Len(parameters) # Len(param_types)
  THEN [ret |-> [error |-> <<"Parameter count mismatch", Len(param_types), Len(parameters)>>],
        steps |-> <<>>]
  ELSE encode_checked(function_signature, parameters, selector, param_types)

\* a variant of encode_function_call without the test of lines 37-40
encode_without_count_check(function_signature, parameters) ==
  encode_checked(function_signature, parameters,
                 get_function_selector(function_signature),
                 extract_param_types(function_signature))

\* encode_function_call, lines 30-66: [ret, steps]
encode_function_call(function_signature, parameters) ==
  encode_counted(function_signature, parameters,
                 get_function_selector(function_signature),
                 extract_param_types(function_signature))

(***************************************************************************)
(* calldata_decoder.py                                                     *)
(***************************************************************************)
\* param.split(" ")[0] and param.split(" ", 1)[1]
type_part(param) ==
  IF contains(param, <<" ">>) THEN SubSeq(param, 1, index(param, " ") - 1) ELSE param

name_part(param, i) ==
  IF contains(param, <<" ">>) THEN SubSeq(param, index(param, " ") + 1, Len(param))
  ELSE <<"p", "a", "r", "a", "m">> \o NatToDec(i)

\* _format_value, lines 135-170
RECURSIVE format_value(_, _)
format_value(param_type, value) ==
  IF param_type = <<"a", "d", "d", "r", "e", "s", "s">>
  THEN IF IsBytes(value) THEN PyStr(<<"0", "x">> \o hex(value.bytes)) ELSE value
  ELSE IF contains(param_type, <<"b", "y", "t", "e", "s">>)
  THEN IF IsBytes(value) THEN PyStr(<<"0", "x">> \o hex(value.bytes)) ELSE value
  ELSE IF contains(param_type, <<"[", "]">>)
  THEN IF IsList(value) \/ IsTuple(value)
       THEN LET items == IF IsList(value) THEN value.list ELSE value.tuple
            IN  PyList([k \in 1..Len(items) |->
                          format_value(replace(param_type, <<"[", "]">>, <<>>), items[k])])
       ELSE value
  ELSE IF contains(param_type, <<"u", "i", "n", "t">>) \/ contains(param_type, <<"i", "n", "t">>)
  THEN IF IsNone(value) THEN PyInt(FALSE, <<>>) ELSE py_int(value).value
  ELSE IF param_type = <<"b", "o", "o", "l">>
  THEN PyBool(py_bool(value))
  ELSE IF param_type = <<"s", "t", "r", "i", "n", "g">>
  THEN IF IsBytes(value) THEN PyStr(utf8_decode(value.bytes).str) ELSE PyStr(py_str(value))
  ELSE value

\* lines 118-133: [ok, result, exc], given what bytes.fromhex and decode gave;
\* exc names the call that raised
decoded_parameters(param_types, params_bytes, decoded_values) ==
  IF ~params_bytes.ok THEN [ok |-> FALSE, result |-> <<>>, exc |-> "fromhex"]
  ELSE IF ~decoded_values.ok THEN [ok |-> FALSE, result |-> <<>>, exc |-> "decode"]
  ELSE [ok |-> TRUE,
        result |-> [k \in 1..Len(param_types) |->
                      [name |-> name_part(param_types[k], k - 1),
                       type |-> type_part(param_types[k]),
                       value |-> format_value(type_part(param_types[k]),
                                              decoded_values.values[k])]],
        exc |-> "none"]

\* lines 105-133, given params_bytes
decode_bytes(param_types, params_bytes) ==
  decoded_parameters(param_types, params_bytes,
                     abi_decode([k \in 1..Len(param_types) |-> type_part(param_types[k])],
                                params_bytes.bytes))

\* _decode_parameters, lines 94-133: [ok, result, exc]
decode_parameters(params_hex, param_types) ==
  IF params_hex = <<>> \/ param_types = <<>> THEN [ok |-> TRUE, result |-> <<>>, exc |-> "none"]
  ELSE decode_bytes(param_types,
                    fromhex(IF startswith(params_hex, <<"0", "x">>)
                            THEN SubSeq(params_hex, 3, Len(params_hex)) ELSE params_hex))

\* 10**18, line 190
WeiThreshold == BigOfDec(<<"1", "0", "0", "0", "0", "0", "0", "0", "0", "0", "0", "0", "0", "0", "0", "0", "0", "0", "0">>)

\* _format_human_readable, lines 178-201: the text as the function name and
\* one part a parameter, "wei" for the amount form, "items" for the count form
\* and "value" for name=value
format_human_readable(function_name, parameters) ==
  [function_name |-> function_name,
   parts |-> [k \in 1..Len(parameters) |->
                LET param == parameters[k]
                    value == param.value
                IN  IF param.type = <<"a", "d", "d", "r", "e", "s", "s">>
                    THEN [name |-> param.name, form |-> "value", of |-> value]
                    ELSE IF contains(param.type, <<"u", "i", "n", "t">>)
                    THEN IF IsInt(value) /\ ~value.int.neg /\ BigLess(WeiThreshold, value.int.mag)
                         THEN [name |-> param.name, form |-> "wei", of |-> value]
                         ELSE [name |-> param.name, form |-> "value", of |-> value]
                    ELSE IF IsList(value)
                    THEN [name |-> param.name, form |-> "items", of |-> Len(value.list)]
                    ELSE [name |-> param.name, form |-> "value", of |-> value]]]

\* a variant of too_short that turns away empty call data only
too_short_empty_only(calldata) == calldata = <<>>

\* decode_calldata, lines 33-36: the local validation
too_short(calldata) == calldata = <<>> \/ Len(calldata) < 10

\* lines 38-44: [function_selector, params_data]
split_calldata(calldata) ==
  LET normalized == IF ~startswith(calldata, <<"0", "x">>) THEN <<"0", "x">> \o calldata ELSE calldata
  IN  [function_selector |-> slice(normalized, 0, 10),
       params_data |-> slice(normalized, 10, Len(normalized))]

\* a variant of unknown_result that reports the unknown signature as an error
unknown_result_as_error(function_selector, params_data) ==
  [function_selector |-> function_selector,
   signature |-> <<"u", "n", "k", "n", "o", "w", "n">>,
   raw_params |-> params_data,
   decoded |-> FALSE,
   error |-> <<"Function signature not found in database">>]

\* lines 50-56: the result for a selector lookup_signature does not resolve
unknown_result(function_selector, params_data) ==
  [function_selector |-> function_selector,
   signature |-> <<"u", "n", "k", "n", "o", "w", "n">>,
   raw_params |-> params_data,
   decoded |-> FALSE,
   warning |-> "Function signature not found in database"]

\* lines 62-86: the result, given what _decode_parameters gave
decoded_result(function_selector, params_data, signature_info, decoded_params) ==
  IF decoded_params.ok
  THEN [function_selector |-> function_selector,
        function_name |-> signature_info.name,
        signature |-> signature_info.signature,
        parameters |-> decoded_params.result,
        decoded |-> TRUE,
        human_readable |-> format_human_readable(signature_info.name, decoded_params.result)]
  ELSE [function_selector |-> function_selector,
        function_name |-> signature_info.name,
        signature |-> signature_info.signature,
        raw_params |-> params_data,
        decoded |-> FALSE,
        error |-> <<"Parameter decoding failed", decoded_params.exc>>]

\* lines 49-86: the result once lookup_signature has returned signature_info
decode_result(function_selector, params_data, signature_info) ==
  IF signature_info = None
  THEN unknown_result(function_selector, params_data)
  ELSE decoded_result(function_selector, params_data, signature_info,
                      decode_parameters(params_data, signature_info.params))

(***************************************************************************)
(* Inputs.                                                                 *)
(***************************************************************************)
SelectorInputs ==
  { <<"0", "x", "a", "9", "0", "5", "9", "c", "b", "b">>, <<"0", "X", "A", "9", "0", "5", "9", "c", "b", "b">>, <<"1", "8", "1", "6", "0", "D", "D", "D">>,
    <<"0", "x", "4", "0", "c", "1", "0", "f", "1", "9">>, <<"4", "0", "C", "1", "0", "F", "1", "9">>, <<"0", "x", "4", "2", "9", "6", "6", "c", "6", "8">> }

\* a known_abi argument of decode_calldata: the ABI of transfer and of mint
KnownAbi ==
  [abi |-> << [name |-> <<"t", "r", "a", "n", "s", "f", "e", "r">>, inputs |-> << <<"a", "d", "d", "r", "e", "s", "s">>, <<"u", "i", "n", "t", "2", "5", "6">> >>],
              [name |-> <<"m", "i", "n", "t">>, inputs |-> << <<"a", "d", "d", "r", "e", "s", "s">>, <<"u", "i", "n", "t", "2", "5", "6">> >>] >>]

\* call data of the directory model: too short; transfer without a body and
\* with a one-byte body; mint, which the table does not have
DirectoryDecodeInputs ==
  { [calldata |-> c, known_abi |-> None] :
      c \in { <<>>, <<"0", "x", "1", "2", "3", "4">>, <<"a", "9", "0", "5", "9", "c", "b", "b">>, <<"0", "x", "a", "9", "0", "5", "9", "c", "b", "b">>, <<"0", "x", "A", "9", "0", "5", "9", "C", "B", "B", "0", "0">>,
              <<"0", "x", "4", "0", "c", "1", "0", "f", "1", "9">>, <<"4", "0", "C", "1", "0", "F", "1", "9", "f", "f">> } }
    \cup { [calldata |-> <<"0", "x", "4", "0", "c", "1", "0", "f", "1", "9">>, known_abi |-> KnownAbi] }

\* call data of the decoder model: too short; transfer with a full, a truncated and an empty body;
\* totalSupply; two selectors the table does not have; multicall(bytes[]);
\* swapExactETHForTokens; exactInputSingle
DecodeInputs ==
  { [calldata |-> c, known_abi |-> None] :
      c \in { <<>>, <<"0", "x", "1", "2", "3", "4">>, <<"a", "9", "0", "5", "9", "c", "b", "b">>,
              <<"0", "x", "a", "9", "0", "5", "9", "c", "b", "b", "0", "0", "0", "0", "0", "0", "0", "0", "0", "0", "0", "0", "0", "0", "0", "0", "0", "0", "0", "0", "0", "0", "0", "0", "7", "4", "2", "d", "3", "5", "c", "c", "6", "6", "3", "4", "c", "0", "5", "3", "2", "9", "2", "5", "a", "3", "b", "8", "4", "4", "b", "c", "9", "e", "7", "5", "9", "5", "f", "0", "b", "e", "b", "0", "0", "0", "0", "0", "0", "0", "0", "0", "0", "0", "0", "0", "0", "0", "0", "0", "0", "0", "0", "0", "0", "0", "0", "0", "0", "0", "0", "0", "0", "0", "0", "0", "0", "0", "0", "0", "0", "0", "0", "0", "0", "0", "0", "0", "0", "0", "0", "0", "1", "b", "c", "1", "6", "d", "6", "7", "4", "e", "c", "8", "0", "0", "0", "0">>,
              <<"A", "9", "0", "5", "9", "C", "B", "B", "0", "0", "0", "0", "0", "0", "0", "0", "0", "0", "0", "0", "0", "0", "0", "0", "0", "0", "0", "0", "0", "0", "0", "0", "7", "4", "2", "d", "3", "5", "c", "c", "6", "6", "3", "4", "c", "0", "5", "3", "2", "9", "2", "5", "a", "3", "b", "8", "4", "4", "b", "c", "9", "e", "7", "5", "9", "5", "f", "0", "b", "e", "b", "0", "0", "0", "0", "0", "0", "0", "0", "0", "0", "0", "0", "0", "0", "0", "0", "0", "0", "0", "0", "0", "0", "0", "0", "0", "0", "0", "0", "0", "0", "0", "0", "0", "0", "0", "0", "0", "0", "0", "0", "0", "0", "0", "0", "0", "0", "0", "0", "0", "0", "0", "0", "0", "0", "0", "0", "0", "0", "0", "0", "0", "0", "0", "0", "5">>,
              <<"0", "x", "a", "9", "0", "5", "9", "c", "b", "b", "0", "0", "0", "0", "0", "0", "0", "0", "0", "0", "0", "0", "0", "0", "0", "0", "0", "0", "0", "0", "0", "0", "0", "0", "7", "4", "2", "d", "3", "5", "c", "c", "6", "6", "3", "4", "c", "0", "5", "3", "2", "9", "2", "5", "a", "3", "b", "8", "4", "4", "b", "c", "9", "e", "7", "5", "9", "5", "f", "0", "b", "e", "b", "0">>,
              <<"0", "x", "a", "9", "0", "5", "9", "c", "b", "b">>,
              <<"0", "x", "1", "8", "1", "6", "0", "d", "d", "d">>,
              <<"0", "x", "4", "0", "c", "1", "0", "f", "1", "9", "0", "0", "0", "0", "0", "0", "0", "0", "0", "0", "0", "0", "0", "0", "0", "0", "0", "0", "0", "0", "0", "0", "0", "0", "7", "4", "2", "d", "3", "5", "c", "c", "6", "6", "3", "4", "c", "0", "5", "3", "2", "9", "2", "5", "a", "3", "b", "8", "4", "4", "b", "c", "9", "e", "7", "5", "9", "5", "f", "0", "b", "e", "b", "0", "0", "0", "0", "0", "0", "0", "0", "0", "0", "0", "0", "0", "0", "0", "0", "0", "0", "0", "0", "0", "0", "0", "0", "0", "0", "0", "0", "0", "0", "0", "0", "0", "0", "0", "0", "0", "0", "0", "0", "0", "0", "0", "0", "0", "0", "0", "0", "0", "0", "0", "0", "0", "0", "0", "0", "0", "0", "0", "0", "0", "0", "0", "0", "5">>,
              <<"0", "x", "4", "2", "9", "6", "6", "c", "6", "8", "z", "z">>,
              <<"0", "x", "a", "c", "9", "6", "5", "0", "d", "8", "0", "0", "0", "0", "0", "0", "0", "0", "0", "0", "0", "0", "0", "0", "0", "0", "0", "0", "0", "0", "0", "0", "0", "0", "0", "0", "0", "0", "0", "0", "0", "0", "0", "0", "0", "0", "0", "0", "0", "0", "0", "0", "0", "0", "0", "0", "0", "0", "0", "0", "0", "0", "0", "0", "0", "0", "0", "0", "0", "0", "0", "0", "2", "0", "0", "0", "0", "0", "0", "0", "0", "0", "0", "0", "0", "0", "0", "0", "0", "0", "0", "0", "0", "0", "0", "0", "0", "0", "0", "0", "0", "0", "0", "0", "0", "0", "0", "0", "0", "0", "0", "0", "0", "0", "0", "0", "0", "0", "0", "0", "0", "0", "0", "0", "0", "0", "0", "0", "0", "0", "0", "0", "0", "0", "0", "0", "0", "1", "0", "0", "0", "0", "0", "0", "0", "0", "0", "0", "0", "0", "0", "0", "0", "0", "0", "0", "0", "0", "0", "0", "0", "0", "0", "0", "0", "0", "0", "0", "0", "0", "0", "0", "0", "0", "0", "0", "0", "0", "0", "0", "0", "0", "0", "0", "0", "0", "0", "0", "0", "0", "0", "0", "0", "0", "0", "0", "0", "0", "0", "0", "2", "0", "0", "0", "0", "0", "0", "0", "0", "0", "0", "0", "0", "0", "0", "0", "0", "0", "0", "0", "0", "0", "0", "0", "0", "0", "0", "0", "0", "0", "0", "0", "0", "0", "0", "0", "0", "0", "0", "0", "0", "0", "0", "0", "0", "0", "0", "0", "0", "0", "0", "0", "0", "0", "0", "0", "0", "0", "0", "0", "0", "0", "0", "0", "0", "2", "0", "1", "0", "2", "0", "0", "0", "0", "0", "0", "0", "0", "0", "0", "0", "0", "0", "0", "0", "0", "0", "0", "0", "0", "0", "0", "0", "0", "0", "0", "0", "0", "0", "0", "0", "0", "0", "0", "0", "0", "0", "0", "0", "0", "0", "0", "0", "0", "0", "0", "0", "0", "0", "0", "0", "0", "0", "0", "0", "0", "0", "0", "0", "0">>,
              <<"0", "x", "7", "f", "f", "3", "6", "a", "b", "5", "0", "0", "0", "0", "0", "0", "0", "0", "0", "0", "0", "0", "0", "0", "0", "0", "0", "0", "0", "0", "0", "0", "0", "0", "0", "0", "0", "0", "0", "0", "0", "0", "0", "0", "0", "0", "0", "0", "0", "0", "0", "0", "0", "0", "0", "0", "0", "0", "0", "0", "0", "0", "0", "0", "0", "0", "0", "0", "0", "0", "0", "0", "0", "1", "0", "0", "0", "0", "0", "0", "0", "0", "0", "0", "0", "0", "0", "0", "0", "0", "0", "0", "0", "0", "0", "0", "0", "0", "0", "0", "0", "0", "0", "0", "0", "0", "0", "0", "0", "0", "0", "0", "0", "0", "0", "0", "0", "0", "0", "0", "0", "0", "0", "0", "0", "0", "0", "0", "0", "0", "0", "0", "0", "0", "0", "0", "8", "0", "0", "0", "0", "0", "0", "0", "0", "0", "0", "0", "0", "0", "0", "0", "0", "0", "0", "0", "0", "0", "0", "0", "0", "0", "0", "0", "0", "0", "0", "0", "0", "0", "0", "0", "0", "0", "0", "0", "0", "0", "0", "0", "0", "0", "0", "0", "0", "0", "0", "0", "0", "0", "0", "0", "0", "0", "0", "0", "0", "0", "0", "0", "a", "a", "0", "0", "0", "0", "0", "0", "0", "0", "0", "0", "0", "0", "0", "0", "0", "0", "0", "0", "0", "0", "0", "0", "0", "0", "0", "0", "0", "0", "0", "0", "0", "0", "0", "0", "0", "0", "0", "0", "0", "0", "0", "0", "0", "0", "0", "0", "0", "0", "0", "0", "0", "0", "0", "0", "0", "0", "0", "0", "0", "0", "0", "0", "0", "9", "0", "0", "0", "0", "0", "0", "0", "0", "0", "0", "0", "0", "0", "0", "0", "0", "0", "0", "0", "0", "0", "0", "0", "0", "0", "0", "0", "0", "0", "0", "0", "0", "0", "0", "0", "0", "0", "0", "0", "0", "0", "0", "0", "0", "0", "0", "0", "0", "0", "0", "0", "0", "0", "0", "0", "0", "0", "0", "0", "0", "0", "0", "0", "2", "0", "0", "0", "0", "0", "0", "0", "0", "0", "0", "0", "0", "0", "0", "0", "0", "0", "0", "0", "0", "0", "0", "0", "0", "7", "4", "2", "d", "3", "5", "c", "c", "6", "6", "3", "4", "c", "0", "5", "3", "2", "9", "2", "5", "a", "3", "b", "8", "4", "4", "b", "c", "9", "e", "7", "5", "9", "5", "f", "0", "b", "e", "b", "0", "0", "0", "0", "0", "0", "0", "0", "0", "0", "0", "0", "0", "0", "0", "0", "0", "0", "0", "0", "0", "0", "0", "0", "0", "0", "0", "0", "0", "0", "0", "0", "0", "0", "0", "0", "0", "0", "0", "0", "0", "0", "0", "0", "0", "0", "0", "0", "0", "0", "0", "0", "0", "0", "0", "0", "0", "0", "0", "0", "0", "0", "0", "a", "a">>,
              <<"0", "x", "c", "0", "4", "b", "8", "d", "5", "9", "0", "0", "0", "0", "0", "0", "0", "0", "0", "0", "0", "0", "0", "0", "0", "0", "0", "0", "0", "0", "0", "0", "0", "0", "0", "0", "0", "0", "0", "0", "0", "0", "0", "0", "0", "0", "0", "0", "0", "0", "0", "0", "0", "0", "0", "0", "0", "0", "0", "0", "0", "0", "0", "0", "0", "0", "0", "0", "0", "0", "0", "0", "0", "1">> } }
    \cup { [calldata |-> c, known_abi |-> KnownAbi] :
             c \in { <<"0", "x", "a", "9", "0", "5", "9", "c", "b", "b", "0", "0", "0", "0", "0", "0", "0", "0", "0", "0", "0", "0", "0", "0", "0", "0", "0", "0", "0", "0", "0", "0", "0", "0", "7", "4", "2", "d", "3", "5", "c", "c", "6", "6", "3", "4", "c", "0", "5", "3", "2", "9", "2", "5", "a", "3", "b", "8", "4", "4", "b", "c", "9", "e", "7", "5", "9", "5", "f", "0", "b", "e", "b", "0", "0", "0", "0", "0", "0", "0", "0", "0", "0", "0", "0", "0", "0", "0", "0", "0", "0", "0", "0", "0", "0", "0", "0", "0", "0", "0", "0", "0", "0", "0", "0", "0", "0", "0", "0", "0", "0", "0", "0", "0", "0", "0", "0", "0", "0", "0", "0", "0", "0", "0", "0", "0", "0", "0", "0", "0", "0", "0", "0", "0", "0", "0", "0", "5">>, <<"0", "x", "4", "0", "c", "1", "0", "f", "1", "9", "0", "0", "0", "0", "0", "0", "0", "0", "0", "0", "0", "0", "0", "0", "0", "0", "0", "0", "0", "0", "0", "0", "0", "0", "7", "4", "2", "d", "3", "5", "c", "c", "6", "6", "3", "4", "c", "0", "5", "3", "2", "9", "2", "5", "a", "3", "b", "8", "4", "4", "b", "c", "9", "e", "7", "5", "9", "5", "f", "0", "b", "e", "b", "0", "0", "0", "0", "0", "0", "0", "0", "0", "0", "0", "0", "0", "0", "0", "0", "0", "0", "0", "0", "0", "0", "0", "0", "0", "0", "0", "0", "0", "0", "0", "0", "0", "0", "0", "0", "0", "0", "0", "0", "0", "0", "0", "0", "0", "0", "0", "0", "0", "0", "0", "0", "0", "0", "0", "0", "0", "0", "0", "0", "0", "0", "0", "0", "5">> } }

\* call data of setValues(uint256[]) with the list 1, 2, which the table does
\* not have, and what the remote service answers for it
ArrayCalldata ==
  <<"0", "x", "6", "d", "a", "2", "c", "5", "d", "0", "0", "0", "0", "0", "0", "0", "0", "0", "0", "0", "0", "0", "0", "0", "0", "0", "0", "0", "0", "0", "0", "0", "0", "0", "0", "0", "0", "0", "0", "0", "0", "0", "0", "0", "0", "0", "0", "0", "0", "0", "0", "0", "0", "0", "0", "0", "0", "0", "0", "0", "0", "0", "0", "0", "0", "0", "0", "0", "0", "0", "0", "0", "2", "0", "0", "0", "0", "0", "0", "0", "0", "0", "0", "0", "0", "0", "0", "0", "0", "0", "0", "0", "0", "0", "0", "0", "0", "0", "0", "0", "0", "0", "0", "0", "0", "0", "0", "0", "0", "0", "0", "0", "0", "0", "0", "0", "0", "0", "0", "0", "0", "0", "0", "0", "0", "0", "0", "0", "0", "0", "0", "0", "0", "0", "0", "0", "0", "2", "0", "0", "0", "0", "0", "0", "0", "0", "0", "0", "0", "0", "0", "0", "0", "0", "0", "0", "0", "0", "0", "0", "0", "0", "0", "0", "0", "0", "0", "0", "0", "0", "0", "0", "0", "0", "0", "0", "0", "0", "0", "0", "0", "0", "0", "0", "0", "0", "0", "0", "0", "0", "0", "0", "0", "0", "0", "0", "0", "0", "0", "0", "0", "1", "0", "0", "0", "0", "0", "0", "0", "0", "0", "0", "0", "0", "0", "0", "0", "0", "0", "0", "0", "0", "0", "0", "0", "0", "0", "0", "0", "0", "0", "0", "0", "0", "0", "0", "0", "0", "0", "0", "0", "0", "0", "0", "0", "0", "0", "0", "0", "0", "0", "0", "0", "0", "0", "0", "0", "0", "0", "0", "0", "0", "0", "0", "0", "2">>

ArrayResponse ==
  [kind |-> "http", status |-> 200, json |-> TRUE, has_results |-> TRUE,
   results |-> << [has_text |-> TRUE, text_signature |-> <<"s", "e", "t", "V", "a", "l", "u", "e", "s", "(", "u", "i", "n", "t", "2", "5", "6", "[", "]", ")">>] >>]

Address1 == <<"0", "x", "7", "4", "2", "d", "3", "5", "C", "c", "6", "6", "3", "4", "C", "0", "5", "3", "2", "9", "2", "5", "a", "3", "b", "8", "4", "4", "B", "c", "9", "e", "7", "5", "9", "5", "f", "0", "b", "E", "b", "0">>
Address2 == <<"0", "x", "a", "a">>

IntOf(digits) == PyInt(FALSE, BigOfDec(digits))

\* encode requests of the directory model
EncodeInputs ==
  { [function_signature |-> <<"t", "o", "t", "a", "l", "S", "u", "p", "p", "l", "y", "(", ")">>, parameters |-> << >>],
    [function_signature |-> <<"t", "r", "a", "n", "s", "f", "e", "r", "(", "a", "d", "d", "r", "e", "s", "s", ",", "u", "i", "n", "t", "2", "5", "6", ")">>,
     parameters |-> <<PyStr(Address1)>>],
    [function_signature |-> <<"s", "e", "t", "V", "a", "l", "u", "e", "s", "(", "u", "i", "n", "t", "2", "5", "6", "[", "]", ")">>,
     parameters |-> <<PyList(<<IntOf(<<"1">>), IntOf(<<"2">>)>>)>>] }

\* encode requests of the codec model: signatures with one parameter list each
CodecInputs ==
  { [function_signature |-> <<"t", "r", "a", "n", "s", "f", "e", "r", "(", "a", "d", "d", "r", "e", "s", "s", ",", "u", "i", "n", "t", "2", "5", "6", ")">>, parameters |-> p] :
      p \in { <<PyStr(Address1), IntOf(<<"5">>)>>,
              <<PyStr(Address1), IntOf(<<"2", "0", "0", "0", "0", "0", "0", "0", "0", "0", "0", "0", "0", "0", "0", "0", "0", "0", "0">>)>>,
              <<PyStr(Address1)>>,
              << >>,
              <<PyStr(Address1), IntOf(<<"5">>), IntOf(<<"6">>)>>,
              <<PyStr(<<"0", "x", "z", "z">>), IntOf(<<"5">>)>>,
              <<PyStr(Address1), PyStr(<<"1", "2">>)>>,
              <<PyStr(Address1), PyStr(<<"a", "b", "c">>)>>,
              <<PyStr(Address1), PyInt(TRUE, <<1>>)>>,
              <<PyStr(Address1), None>>,
              <<IntOf(<<"5">>), IntOf(<<"5">>)>> } }
    \cup { [function_signature |-> <<"t", "r", "a", "n", "s", "f", "e", "r", "(", "a", "d", "d", "r", "e", "s", "s", ",", " ", "u", "i", "n", "t", "2", "5", "6", ")">>,
            parameters |-> <<PyStr(Address2), IntOf(<<"5">>)>>],
           [function_signature |-> <<"t", "o", "t", "a", "l", "S", "u", "p", "p", "l", "y", "(", ")">>, parameters |-> << >>],
           [function_signature |-> <<"t", "o", "t", "a", "l", "S", "u", "p", "p", "l", "y", "(", ")">>, parameters |-> <<IntOf(<<"1">>)>>],
           [function_signature |-> <<"t", "r", "a", "n", "s", "f", "e", "r">>, parameters |-> << >>],
           [function_signature |-> <<"m", "i", "n", "t", "(", "a", "d", "d", "r", "e", "s", "s", ",", "u", "i", "n", "t", "2", "5", "6", ")">>,
            parameters |-> <<PyStr(<<"A", "B", "C">>), IntOf(<<"2", "0", "0", "0", "0", "0", "0", "0", "0", "0", "0", "0", "0", "0", "0", "0", "0", "0", "0">>)>>],
           [function_signature |-> <<"b", "u", "r", "n", "(", "u", "i", "n", "t", "2", "5", "6", ")">>, parameters |-> <<IntOf(<<"7">>)>>],
           [function_signature |-> <<"b", "u", "r", "n", "(", "u", "i", "n", "t", "2", "5", "6", ")">>, parameters |-> <<PyBool(TRUE)>>],
           [function_signature |-> <<"s", "e", "t", "V", "a", "l", "u", "e", "s", "(", "u", "i", "n", "t", "2", "5", "6", "[", "]", ")">>,
            parameters |-> <<PyList(<<IntOf(<<"1">>), IntOf(<<"2">>)>>)>>],
           [function_signature |-> <<"s", "e", "t", "V", "a", "l", "u", "e", "s", "(", "u", "i", "n", "t", "2", "5", "6", "[", "]", ")">>, parameters |-> <<PyList(<< >>)>>],
           [function_signature |-> <<"s", "e", "t", "F", "l", "a", "g", "(", "b", "o", "o", "l", ")">>, parameters |-> <<PyBool(TRUE)>>],
           [function_signature |-> <<"s", "e", "t", "F", "l", "a", "g", "(", "b", "o", "o", "l", ")">>, parameters |-> <<PyBool(FALSE)>>],
           [function_signature |-> <<"s", "e", "t", "F", "l", "a", "g", "(", "b", "o", "o", "l", ")">>, parameters |-> <<PyStr(<<"f", "a", "l", "s", "e">>)>>],
           [function_signature |-> <<"s", "e", "t", "F", "l", "a", "g", "s", "(", "b", "o", "o", "l", "[", "]", ")">>,
            parameters |-> <<PyList(<<PyBool(TRUE), PyBool(FALSE)>>)>>],
           [function_signature |-> <<"s", "e", "t", "N", "a", "m", "e", "(", "s", "t", "r", "i", "n", "g", ")">>, parameters |-> <<PyStr(<<"b", "o", "b">>)>>],
           [function_signature |-> <<"s", "e", "t", "N", "a", "m", "e", "(", "s", "t", "r", "i", "n", "g", ")">>, parameters |-> <<IntOf(<<"4", "2">>)>>],
           [function_signature |-> <<"s", "e", "t", "N", "a", "m", "e", "s", "(", "s", "t", "r", "i", "n", "g", "[", "]", ")">>,
            parameters |-> <<PyList(<<PyStr(<<"a">>), PyStr(<<"b", "c">>)>>)>>],
           [function_signature |-> <<"s", "t", "o", "r", "e", "(", "b", "y", "t", "e", "s", ")">>, parameters |-> <<PyStr(<<"0", "x", "A", "B", "c", "d">>)>>],
           [function_signature |-> <<"s", "t", "o", "r", "e", "(", "b", "y", "t", "e", "s", ")">>, parameters |-> <<PyStr(<<"a", "b", "c", "d">>)>>],
           [function_signature |-> <<"s", "t", "o", "r", "e", "(", "b", "y", "t", "e", "s", ")">>, parameters |-> <<PyStr(<<"0", "x", "a", "b", "c">>)>>],
           [function_signature |-> <<"m", "u", "l", "t", "i", "c", "a", "l", "l", "(", "b", "y", "t", "e", "s", "[", "]", ")">>,
            parameters |-> <<PyList(<<PyStr(<<"0", "x", "0", "1">>), PyStr(<<"0", "x", "0", "2", "0", "3">>)>>)>>],
           [function_signature |-> <<"s", "e", "t", "I", "n", "t", "(", "i", "n", "t", "2", "5", "6", ")">>, parameters |-> <<PyInt(TRUE, <<1>>)>>],
           [function_signature |-> <<"s", "w", "a", "p", "E", "x", "a", "c", "t", "E", "T", "H", "F", "o", "r", "T", "o", "k", "e", "n", "s", "(", "u", "i", "n", "t", "2", "5", "6", ",", "a", "d", "d", "r", "e", "s", "s", "[", "]", ",", "a", "d", "d", "r", "e", "s", "s", ",", "u", "i", "n", "t", "2", "5", "6", ")">>,
            parameters |-> <<IntOf(<<"1">>), PyList(<<PyStr(Address1), PyStr(Address2)>>),
                             PyStr(Address2), IntOf(<<"9">>)>>] }

\* what the remote service answers in the codec model: an error, the
\* signature that was encoded, or another one
CodecResponses(function_signature) ==
  { [kind |-> "neterror", status |-> 0, json |-> FALSE, has_results |-> FALSE, results |-> <<>>] }
    \cup { [kind |-> "http", status |-> 200, json |-> TRUE, has_results |-> TRUE,
            results |-> << [has_text |-> TRUE, text_signature |-> sg] >>] :
             sg \in { replace(function_signature, <<" ">>, <<>>), <<"b", "u", "r", "n", "(", "u", "i", "n", "t", "2", "5", "6", ")">> } }

\* signatures of the parser model: f( interior ) for every interior up to
\* MaxInterior characters, and some texts of another form
SigAlphabet == {"a", " ", ",", "(", ")", "[", "]"}

SigInputs ==
  { <<"f", "(">> \o interior \o <<")">> :
      interior \in UNION { [1..n -> SigAlphabet] : n \in 0..MaxInterior } }
    \cup { <<>>, <<"f">>, <<"f", "(", "a">>, <<"f", "a", ")">>, <<")", "a", "(">>, <<")", "a", ",", "a", "(">>, <<"f", "(", "u", "i", "n", "t", "2", "5", "6", ",", "a", "d", "d", "r", "e", "s", "s", "[", "]", ",", "(", "b", "o", "o", "l", ",", "u", "i", "n", "t", "8", ")", ")">> }

NoFrame == [op |-> "none"]
NoCall == [tick |-> 0, op |-> "none"]
NoInput == [none |-> TRUE]

(***************************************************************************)
(* The operations.                                                         *)
(***************************************************************************)
\* a call returns: last is what its caller observes
\*   arg        the arguments of the call
\*   selector   the selector lookup_signature was called with, normalized
\*   consulted  whether lookup_signature was called
\*   attempts   the remote requests the call made
\*   info       what lookup_signature returned
Returned(op, arg, selector, consulted, attempts, info, ret) ==
  last' = [tick |-> 1 - last.tick, op |-> op, arg |-> arg, selector |-> selector,
           consulted |-> consulted, attempts |-> attempts, info |-> info, ret |-> ret]

\* encode_function_call returns res: steps are the calls it made
Encoded(function_signature, parameters, res) ==
  last' = [tick |-> 1 - last.tick, op |-> "encode",
           arg |-> [function_signature |-> function_signature, parameters |-> parameters],
           steps |-> res.steps, ret |-> res.ret]

\* task t takes the next call: the tasks are alike, and a call runs as the
\* first task that is not inside one
Free(t) ==
  /\ pc[t] = "idle"
  /\ \A u \in Tasks : u < t => pc[u] # "idle"

\* lookup_signature(function_selector), up to its return or its suspension
\* at the remote call
Lookup(t, function_selector) ==
  /\ Free(t)
  /\ LET selector == normalize_selector(function_selector)
         local == lookup_local(selector)
     IN  IF local.found
         THEN /\ Returned("lookup", [function_selector |-> function_selector], selector,
                          TRUE, 0, local.info, local.info)
              /\ UNCHANGED <<cache, pc, frame, requests>>
         ELSE /\ requests < MaxRequests
              /\ requests' = requests + 1
              /\ pc' = [pc EXCEPT ![t] = "await"]
              /\ frame' = [frame EXCEPT ![t] =
                             [op |-> "lookup",
                              arg |-> [function_selector |-> function_selector],
                              selector |-> selector]]
              /\ UNCHANGED <<cache, last>>
  /\ UNCHANGED input

\* decode_calldata(calldata, known_abi), up to its return or its suspension
\* inside lookup_signature
Decode(t, calldata, known_abi) ==
  /\ Free(t)
  /\ LET arg == [calldata |-> calldata, known_abi |-> known_abi]
     IN  IF too_short(calldata)
         THEN /\ Returned("decode", arg, None, FALSE, 0, None,
                          [error |-> <<"Invalid calldata - too short">>])
              /\ UNCHANGED <<cache, pc, frame, requests>>
         ELSE LET parts == split_calldata(calldata)
                  selector == normalize_selector(parts.function_selector)
                  local == lookup_local(selector)
              IN  IF local.found
                  THEN /\ Returned("decode", arg, selector, TRUE, 0, local.info,
                                   decode_result(parts.function_selector, parts.params_data,
                                                 local.info))
                       /\ UNCHANGED <<cache, pc, frame, requests>>
                  ELSE /\ requests < MaxRequests
                       /\ requests' = requests + 1
                       /\ pc' = [pc EXCEPT ![t] = "await"]
                       /\ frame' = [frame EXCEPT ![t] =
                                      [op |-> "decode", arg |-> arg, selector |-> selector]]
                       /\ UNCHANGED <<cache, last>>
  /\ UNCHANGED input

\* the remote call of task t completes with response: lookup_signature goes
\* on from line 125 and returns, and a decode_calldata that awaited it goes on
\* from line 49
RemoteRespond(t, response) ==
  /\ pc[t] = "await"
  /\ LET selector == frame[t].selector
         signature_info == remote_signature_info(response)
     IN  /\ cache' = cache_after(selector, signature_info)
         /\ IF frame[t].op = "lookup"
            THEN Returned("lookup", frame[t].arg, selector, TRUE, 1, signature_info,
                          signature_info)
            ELSE LET parts == split_calldata(frame[t].arg.calldata)
                 IN  Returned("decode", frame[t].arg, selector, TRUE, 1, signature_info,
                              decode_result(parts.function_selector, parts.params_data,
                                            signature_info))
  /\ pc' = [pc EXCEPT ![t] = "idle"]
  /\ frame' = [frame EXCEPT ![t] = NoFrame]
  /\ UNCHANGED <<requests, input>>

\* encode_function_call(function_signature, parameters): synchronous
Encode(function_signature, parameters) ==
  /\ Encoded(function_signature, parameters,
             encode_function_call(function_signature, parameters))
  /\ UNCHANGED <<cache, pc, frame, requests, input>>

\* _extract_param_types(input)
Extract ==
  /\ last = NoCall
  /\ last' = [tick |-> 1, op |-> "extract", arg |-> [function_signature |-> input],
              ret |-> extract_param_types(input)]
  /\ UNCHANGED <<cache, pc, frame, requests, input>>

(***************************************************************************)
(* The directory model: tasks call lookup_signature and decode_calldata    *)
(* concurrently, each suspending at the remote call only; encode requests  *)
(* come in between.                                                        *)
(***************************************************************************)
InitState ==
  /\ cache = << >>
  /\ pc = [t \in Tasks |-> "idle"]
  /\ frame = [t \in Tasks |-> NoFrame]
  /\ last = NoCall
  /\ requests = 0

Init ==
  /\ InitState
  /\ input = NoInput

Next ==
  \/ \E t \in Tasks, s \in SelectorInputs : Lookup(t, s)
  \/ \E t \in Tasks, d \in DirectoryDecodeInputs : Decode(t, d.calldata, d.known_abi)
  \/ \E t \in Tasks, r \in DirectoryResponses : RemoteRespond(t, r)
  \/ \E e \in EncodeInputs : Encode(e.function_signature, e.parameters)

Spec == Init /\ [][Next]_vars

(***************************************************************************)
(* The decoder model: decode_calldata of one request, any number of times. *)
(***************************************************************************)
InitDecode ==
  /\ InitState
  /\ input \in DecodeInputs \cup { [calldata |-> ArrayCalldata, known_abi |-> None] }

NextDecode ==
  \/ \E t \in Tasks : Decode(t, input.calldata, input.known_abi)
  \/ \E t \in Tasks, r \in RemoteResponses \cup {ArrayResponse} : RemoteRespond(t, r)

SpecDecode == InitDecode /\ [][NextDecode]_vars

(***************************************************************************)
(* The codec model: one encode request, then decode_calldata of the call   *)
(* data it returned.                                                       *)
(***************************************************************************)
InitCodec ==
  /\ InitState
  /\ input \in CodecInputs

EncodeInput ==
  /\ last = NoCall
  /\ Encode(input.function_signature, input.parameters)

DecodeEncoded(t) ==
  /\ last.op = "encode"
  /\ "calldata" \in DOMAIN last.ret
  /\ Decode(t, last.ret.calldata, None)

NextCodec ==
  \/ EncodeInput
  \/ \E t \in Tasks : DecodeEncoded(t)
  \/ \E t \in Tasks, r \in CodecResponses(input.function_signature) : RemoteRespond(t, r)

SpecCodec == InitCodec /\ [][NextCodec]_vars

(***************************************************************************)
(* The parser model: _extract_param_types of one signature.                *)
(***************************************************************************)
InitParse ==
  /\ InitState
  /\ input \in SigInputs

NextParse == Extract

SpecParse == InitParse /\ [][NextParse]_vars

(***************************************************************************)
(* Properties of the directory model.                                      *)
(***************************************************************************)
\* C1: a lookup_signature call whose selector, lower-cased and given a missing
\* 0x prefix, is a key of the built-in table returns that table's entry, makes
\* no remote request and leaves the cache as it was, whatever calls came
\* before it; no call waits for the remote service with such a selector.
C1_BuiltinLookup ==
  [][ /\ \A t \in Tasks :
           pc'[t] = "await" => frame'[t].selector \notin DOMAIN COMMON_SIGNATURES
      /\ (last'.tick # last.tick /\ last'.op = "lookup"
            /\ normalize_selector(last'.arg.function_selector) \in DOMAIN COMMON_SIGNATURES)
         => /\ last'.ret = COMMON_SIGNATURES[normalize_selector(last'.arg.function_selector)]
            /\ last'.attempts = 0
            /\ requests' = requests
            /\ cache' = cache ]_vars

\* a built-in selector in another case, looked up after a remote hit was cached
C1_Witness ==
  /\ last.op = "lookup"
  /\ last.arg.function_selector = <<"0", "X", "A", "9", "0", "5", "9", "c", "b", "b">>
  /\ last.ret = COMMON_SIGNATURES[<<"0", "x", "a", "9", "0", "5", "9", "c", "b", "b">>]
  /\ DOMAIN cache # {}
  /\ requests > 0

\* C2: once a lookup_signature call for a selector outside the built-in table
\* has completed with a remote hit, every later call for the same normalized
\* selector returns the cached entry and makes no remote request.  In three
\* parts that give it by induction: a remote hit leaves its entry in the
\* cache; no entry ever leaves the cache; a call that starts with its selector
\* in the cache returns the cached entry at once, without a request.
C2_ServedFromCache ==
  [][ /\ (last'.tick # last.tick /\ last'.op \in {"lookup", "decode"}
            /\ last'.attempts = 1 /\ last'.info # None)
         => /\ last'.selector \in DOMAIN cache'
            /\ cache'[last'.selector] = last'.info
      /\ DOMAIN cache \subseteq DOMAIN cache'
      /\ \A t \in Tasks :
           (pc[t] = "idle" /\ pc'[t] = "await") => frame'[t].selector \notin DOMAIN cache
      /\ (last'.tick # last.tick /\ last'.op \in {"lookup", "decode"}
            /\ last'.consulted /\ last'.attempts = 0
            /\ last'.selector \in DOMAIN cache)
         => /\ last'.info = cache[last'.selector]
            /\ last'.op = "lookup" => last'.ret = cache[last'.selector]
            /\ requests' = requests ]_vars

\* a lookup answered from the cache
C2_Witness ==
  /\ last.op = "lookup"
  /\ last.attempts = 0
  /\ last.selector \in DOMAIN cache
  /\ last.ret = cache[last.selector]
  /\ requests > 0

\* the responses that are a failure: a network error, a timeout, a status
\* other than 200, a body that is not JSON, that has no results or an empty
\* list of them, or whose first result has no text_signature.  A first result
\* with a text of any form is a hit: lines 129-139 take it as the signature.
RemoteFailed(response) ==
  \/ response.kind \in {"neterror", "timeout"}
  \/ response.status # 200
  \/ ~response.json
  \/ ~response.has_results
  \/ response.results = <<>>
  \/ ~response.results[1].has_text

\* C3: when the remote query of a lookup_signature call fails, the call
\* returns None after that one attempt, without raising: no second request,
\* the task is done, and the cache is as it was.
C3_RemoteFailure ==
  [][ \A t \in Tasks, r \in DirectoryResponses :
        (pc[t] = "await" /\ pc'[t] = "idle" /\ RemoteFailed(r) /\ RemoteRespond(t, r))
        => /\ last'.info = None
           /\ last'.op = "lookup" => last'.ret = None
           /\ last'.attempts = 1
           /\ requests' = requests
           /\ \A u \in Tasks : pc[u] = "idle" => pc'[u] = "idle"
           /\ cache' = cache ]_vars

\* a lookup that failed while the cache held another selector
C3_Witness ==
  /\ last.op = "lookup"
  /\ last.attempts = 1
  /\ last.ret = None
  /\ last.selector \notin DOMAIN cache
  /\ DOMAIN cache # {}

\* C4: decode_calldata of call data that is empty or shorter than 10
\* characters returns a result that is only the "too short" error, and the
\* Signature Directory is not consulted: no lookup, no request, the cache as
\* it was.
C4_TooShort ==
  [][ /\ \A t \in Tasks :
           (pc'[t] = "await" /\ frame'[t].op = "decode")
           => Len(frame'[t].arg.calldata) >= 10
      /\ (last'.tick # last.tick /\ last'.op = "decode" /\ Len(last'.arg.calldata) < 10)
         => /\ last'.ret = [error |-> <<"Invalid calldata - too short">>]
            /\ ~last'.consulted
            /\ last'.attempts = 0
            /\ requests' = requests
            /\ cache' = cache ]_vars

\* call data of 6 characters turned away after other calls made requests
C4_Witness ==
  /\ last.op = "decode"
  /\ last.arg.calldata = <<"0", "x", "1", "2", "3", "4">>
  /\ DOMAIN last.ret = {"error"}
  /\ requests > 0

\* C5: when decode_calldata is given a known signature, the Signature
\* Directory is not consulted (lookup_signature is not called, no request is
\* made) and the body is decoded with the signature that was given.
C5_KnownSignatureUsed ==
  /\ \A t \in Tasks :
       (pc[t] = "await" /\ frame[t].op = "decode") => frame[t].arg.known_abi = None
  /\ (last.op = "decode" /\ last.arg.known_abi # None /\ Len(last.arg.calldata) >= 10)
     => /\ ~last.consulted
        /\ last.attempts = 0
        /\ "warning" \notin DOMAIN last.ret

(***************************************************************************)
(* Properties of the decoder model.                                        *)
(***************************************************************************)
\* C6: every decode_calldata call returns one of four results: the error
\* alone for call data that is too short; the selector, the signature
\* "unknown", the raw body, decoded false and a warning, without an error
\* key, when the selector is not resolved; the selector, the name, the
\* signature, the raw body, decoded false and an error when the signature is
\* resolved and decoding the body raises; the selector, the name, the
\* signature, the parameters, decoded true and the rendering otherwise.
C6_ResultShapes ==
  last.op = "decode" =>
    LET r == last.ret
        calldata == last.arg.calldata
    IN  IF Len(calldata) < 10
        THEN r = [error |-> <<"Invalid calldata - too short">>]
        ELSE /\ "function_selector" \in DOMAIN r
             /\ r.function_selector = split_calldata(calldata).function_selector
             /\ IF last.info = None
                THEN /\ DOMAIN r = {"function_selector", "signature", "raw_params",
                                    "decoded", "warning"}
                     /\ r.signature = <<"u", "n", "k", "n", "o", "w", "n">>
                     /\ r.raw_params = split_calldata(calldata).params_data
                     /\ r.decoded = FALSE
                ELSE /\ "signature" \in DOMAIN r /\ "function_name" \in DOMAIN r
                     /\ r.signature = last.info.signature
                     /\ r.function_name = last.info.name
                     /\ IF decode_parameters(split_calldata(calldata).params_data,
                                             last.info.params).ok
                        THEN /\ DOMAIN r = {"function_selector", "function_name", "signature",
                                            "parameters", "decoded", "human_readable"}
                             /\ r.decoded = TRUE
                        ELSE /\ DOMAIN r = {"function_selector", "function_name", "signature",
                                            "raw_params", "decoded", "error"}
                             /\ r.raw_params = split_calldata(calldata).params_data
                             /\ r.decoded = FALSE

\* a selector the remote service resolved, with a body that does not decode
C6_Witness ==
  /\ last.op = "decode"
  /\ last.attempts = 1
  /\ last.info # None
  /\ DOMAIN last.ret = {"function_selector", "function_name", "signature",
                        "raw_params", "decoded", "error"}

(***************************************************************************)
(* Properties of the codec model.                                          *)
(***************************************************************************)
\* C7: encode_function_call with a parameter list whose length is not the
\* number of parameter types of the signature returns a result with an error
\* key that tells the two counts and without calldata; it does not raise, and
\* neither normalization nor ABI encoding is attempted.
C7_CountMismatch ==
  (last.op = "encode"
     /\ Len(last.arg.parameters) # Len(extract_param_types(last.arg.function_signature)))
  => /\ "error" \in DOMAIN last.ret
     /\ last.ret.error = <<"Parameter count mismatch",
                           Len(extract_param_types(last.arg.function_signature)),
                           Len(last.arg.parameters)>>
     /\ "calldata" \notin DOMAIN last.ret
     /\ last.steps = <<>>

\* transfer(address,uint256) with the address alone
C7_Witness ==
  /\ last.op = "encode"
  /\ last.arg.function_signature = <<"t", "r", "a", "n", "s", "f", "e", "r", "(", "a", "d", "d", "r", "e", "s", "s", ",", "u", "i", "n", "t", "2", "5", "6", ")">>
  /\ Len(last.arg.parameters) = 1
  /\ "error" \in DOMAIN last.ret

\* C8: every result of encode_function_call has one of two shapes: calldata,
\* function_selector, function_signature, parameters and encoded true; or
\* error, function_signature, parameters and encoded false.
C8_TwoShapes ==
  last.op = "encode" =>
    \/ /\ DOMAIN last.ret = {"calldata", "function_selector", "function_signature",
                             "parameters", "encoded"}
       /\ last.ret.encoded = TRUE
    \/ /\ DOMAIN last.ret = {"error", "function_signature", "parameters", "encoded"}
       /\ last.ret.encoded = FALSE

\* the values the round trip of C9 is stated for: an address of up to 40
\* hexadecimal digits, an int in the range of its type, a bool, a str, bytes
\* as 0x and an even number of hexadecimal digits, and lists of these
RECURSIVE RoundTripSupported(_, _)
RoundTripSupported(t, value) ==
  LET ty == abi_type(t)
  IN  CASE ty.kind = "address" ->
             /\ IsStr(value)
             /\ LET text == lower(value.str)
                    digits == IF startswith(text, <<"0", "x">>) THEN SubSeq(text, 3, Len(text)) ELSE text
                IN  /\ Len(digits) \in 1..40
                    /\ \A i \in 1..Len(digits) : IsHexDigit(digits[i])
        [] ty.kind \in {"uint", "int"} -> IsInt(value) /\ int_in_range(ty, value.int)
        [] ty.kind = "bool" -> IsBool(value)
        [] ty.kind = "string" -> IsStr(value)
        [] ty.kind = "bytes" ->
             /\ IsStr(value)
             /\ startswith(value.str, <<"0", "x">>)
             /\ Len(value.str) % 2 = 0
             /\ \A i \in 3..Len(value.str) : IsHexDigit(value.str[i])
        [] ty.kind = "array" ->
             /\ IsList(value)
             /\ \A k \in 1..Len(value.list) : RoundTripSupported(ty.elem, value.list[k])
        [] OTHER -> FALSE

\* the value C9 expects back: the address lower-cased and padded with zeros,
\* bytes as lower-case hexadecimal after 0x, the rest as it was given
RECURSIVE RoundTripValue(_, _)
RoundTripValue(t, value) ==
  LET ty == abi_type(t)
  IN  CASE ty.kind = "address" ->
             LET text == lower(value.str)
                 digits == IF startswith(text, <<"0", "x">>) THEN SubSeq(text, 3, Len(text)) ELSE text
             IN  PyStr(<<"0", "x">> \o [i \in 1..(40 - Len(digits)) |-> "0"] \o digits)
        [] ty.kind = "bytes" -> PyStr(lower(value.str))
        [] ty.kind = "array" ->
             PyList([k \in 1..Len(value.list) |-> RoundTripValue(ty.elem, value.list[k])])
        [] OTHER -> value

\* C9: for a signature the Directory resolves and parameter values of the
\* supported types, encode_function_call succeeds, and decode_calldata of its
\* calldata returns decoded true with every value equal to the original after
\* the normalization of its type.
C9_RoundTrip ==
  LET types == extract_param_types(input.function_signature)
      supported ==
        /\ Len(types) = Len(input.parameters)
        /\ \A k \in 1..Len(types) : RoundTripSupported(types[k], input.parameters[k])
  IN  supported =>
        /\ last.op = "encode" => "calldata" \in DOMAIN last.ret
        /\ (last.op = "decode" /\ last.info # None
              /\ last.info.signature = replace(input.function_signature, <<" ">>, <<>>))
           => /\ last.ret.decoded
              /\ Len(last.ret.parameters) = Len(types)
              /\ \A k \in 1..Len(types) :
                   last.ret.parameters[k].value = RoundTripValue(types[k], input.parameters[k])

(***************************************************************************)
(* Properties of the parser model.                                         *)
(***************************************************************************)
\* the text between the first "(" and the last ")" of a signature
Interior(signature) ==
  LET opens == {i \in 1..Len(signature) : signature[i] = "("}
      closes == {i \in 1..Len(signature) : signature[i] = ")"}
      first == CHOOSE i \in opens : \A j \in opens : i <= j
      final == CHOOSE i \in closes : \A j \in closes : j <= i
  IN  IF opens = {} \/ closes = {} THEN <<>>
      ELSE IF final <= first THEN <<>>
      ELSE SubSeq(signature, first + 1, final - 1)

\* the nesting depth at position i of a text: the "(" and "[" before it less
\* the ")" and "]" before it
DepthAt(text, i) ==
  Cardinality({j \in 1..(i - 1) : text[j] \in {"(", "["}})
    - Cardinality({j \in 1..(i - 1) : text[j] \in {")", "]"}})

\* the segments of a text that its commas at depth 0 delimit, in order
Segments(text) ==
  LET cuts == {0, Len(text) + 1}
                \cup {i \in 1..Len(text) : text[i] = "," /\ DepthAt(text, i) = 0}
      cut(k) == CHOOSE x \in cuts : Cardinality({y \in cuts : y < x}) = k
  IN  [k \in 1..(Cardinality(cuts) - 1) |-> SubSeq(text, cut(k - 1) + 1, cut(k) - 1)]

\* a segment without the whitespace at its two ends
Trimmed(segment) ==
  LET inked == {i \in 1..Len(segment) : segment[i] # " "}
  IN  IF inked = {} THEN <<>>
      ELSE SubSeq(segment, CHOOSE i \in inked : \A j \in inked : i <= j,
                  CHOOSE i \in inked : \A j \in inked : j <= i)

NonEmpty(segment) == segment # <<>>

\* C10, as amended: extract_param_types returns, in their order and trimmed,
\* exactly the segments of at least one character that the commas at depth 0
\* delimit in the text between the first "(" and the last ")"; a segment of no
\* character is left out, a segment of whitespace alone gives the empty
\* token; a comma at another depth splits nothing, so that
\* f(uint256,address[],(bool,uint8)) gives 3 tokens, and a signature without
\* parentheses gives the empty list.
C10_NonEmptySegments ==
  last.op = "extract" =>
    LET signature == last.arg.function_signature
        kept == SelectSeq(Segments(Interior(signature)), NonEmpty)
    IN  /\ last.ret = [k \in 1..Len(kept) |-> Trimmed(kept[k])]
        /\ signature = <<"f", "(", "u", "i", "n", "t", "2", "5", "6", ",", "a", "d", "d", "r", "e", "s", "s", "[", "]", ",", "(", "b", "o", "o", "l", ",", "u", "i", "n", "t", "8", ")", ")">>
           => last.ret = << <<"u", "i", "n", "t", "2", "5", "6">>, <<"a", "d", "d", "r", "e", "s", "s", "[", "]">>, <<"(", "b", "o", "o", "l", ",", "u", "i", "n", "t", "8", ")">> >>
        /\ (\A i \in 1..Len(signature) : signature[i] \notin {"(", ")"}) => last.ret = <<>>

\* a signature with a comma inside brackets and one outside
C10_Witness ==
  /\ last.op = "extract"
  /\ last.arg.function_signature = <<"f", "(", "a", ",", "[", ",", "]", ")">>
  /\ last.ret = << <<"a">>, <<"[", ",", "]">> >>

\* C10, as stated: extract_param_types returns, in their order and trimmed,
\* exactly the segments that the commas at depth 0 delimit in the text between
\* the first "(" and the last ")", none for an empty text.
C10_AllSegments ==
  last.op = "extract" =>
    LET interior == Interior(last.arg.function_signature)
        segments == IF interior = <<>> THEN <<>> ELSE Segments(interior)
    IN  last.ret = [k \in 1..Len(segments) |-> Trimmed(segments[k])]

(***************************************************************************)
(* Properties of the cache under concurrent calls (the directory model).   *)
(***************************************************************************)
\* C11: under every interleaving of lookup_signature tasks, an entry of the
\* cache never changes: a write for a selector that has an entry stores an
\* equal entry, and a call that resolves a selector that has an entry returns
\* that entry.
C11_CacheImmutable ==
  [][ /\ \A s \in DOMAIN cache : s \in DOMAIN cache' /\ cache'[s] = cache[s]
      /\ (last'.tick # last.tick /\ last'.op = "lookup" /\ last'.ret # None
            /\ last'.selector \in DOMAIN cache)
         => last'.ret = cache[last'.selector] ]_vars

\* the hexadecimal digits a selector text stands for, whatever its letter
\* case and with or without its prefix
SelectorDigits(s) ==
  IF startswith(lower(s), <<"0", "x">>) THEN SubSeq(lower(s), 3, Len(s)) ELSE lower(s)

\* C12: every key of the cache is lower-case and starts with 0x, so that no
\* two keys are the same selector written in two ways.
C12_KeysNormalized ==
  /\ \A s \in DOMAIN cache : s = lower(s) /\ startswith(s, <<"0", "x">>)
  /\ \A a, b \in DOMAIN cache : SelectorDigits(a) = SelectorDigits(b) => a = b

\* a remote hit cached for a selector that was passed in upper case and
\* without its prefix
C12_Witness ==
  /\ last.op = "lookup"
  /\ last.arg.function_selector = <<"4", "0", "C", "1", "0", "F", "1", "9">>
  /\ last.attempts = 1
  /\ last.ret # None
  /\ DOMAIN cache = { <<"0", "x", "4", "0", "c", "1", "0", "f", "1", "9">> }

(***************************************************************************)
(* Properties of the results of decode_calldata (the decoder model).       *)
(***************************************************************************)
\* C13: the function_selector of a decode_calldata result that has one is
\* "0x" and eight more characters, in lower case, whatever the letter case
\* and the prefix of the call data.
C13_SelectorNormalized ==
  (last.op = "decode" /\ "function_selector" \in DOMAIN last.ret)
  => /\ Len(last.ret.function_selector) = 10
     /\ startswith(last.ret.function_selector, <<"0", "x">>)
     /\ last.ret.function_selector = lower(last.ret.function_selector)

\* the values eth_abi gives for the body of call data and the declared
\* parameter tokens, before any formatting
RawValues(calldata, params) ==
  abi_decode([k \in 1..Len(params) |-> type_part(params[k])],
             fromhex(split_calldata(calldata).params_data).bytes).values

\* T[] is an array type, of element type T
IsArrayType(t) == Len(t) > 2 /\ SubSeq(t, Len(t) - 1, Len(t)) = <<"[", "]">>
ElementType(t) == SubSeq(t, 1, Len(t) - 2)

\* C15: the value of a decoded parameter of type T[] is the sequence of its
\* elements, each formatted by the rule of T; the elements of a bytes[] or
\* bytesN[] are 0x-prefixed hex strings.
C15_ArrayElementsFormatted ==
  (last.op = "decode" /\ "decoded" \in DOMAIN last.ret /\ last.ret.decoded)
  => \A k \in 1..Len(last.ret.parameters) :
       LET p == last.ret.parameters[k]
           raw == RawValues(last.arg.calldata, last.info.params)[k]
       IN  IsArrayType(p.type) =>
             /\ IsList(p.value)
             /\ Len(p.value.list) = Len(raw.tuple)
             /\ \A i \in 1..Len(raw.tuple) :
                  /\ p.value.list[i] = format_value(ElementType(p.type), raw.tuple[i])
                  /\ contains(p.type, <<"b", "y", "t", "e", "s">>)
                     => /\ IsStr(p.value.list[i])
                        /\ startswith(p.value.list[i].str, <<"0", "x">>)

\* C16: in the rendering of a successful decode, a parameter whose value is
\* a list is rendered as the count of its items, a uintN[] as any other.
C16_ListsSummarized ==
  (last.op = "decode" /\ "decoded" \in DOMAIN last.ret /\ last.ret.decoded)
  => \A k \in 1..Len(last.ret.parameters) :
       IsList(last.ret.parameters[k].value)
       => /\ last.ret.human_readable.parts[k].form = "items"
          /\ last.ret.human_readable.parts[k].of = Len(last.ret.parameters[k].value.list)

\* C17: a result with decoded true has one parameter for each token of the
\* resolved entry, in order, with the type of the token and its name, or
\* paramN at position N for a token without a name; call data whose body is
\* empty or cut short for a non-empty list of tokens does not give decoded
\* true.
C17_OneParameterPerToken ==
  (last.op = "decode" /\ "decoded" \in DOMAIN last.ret /\ last.ret.decoded)
  => /\ Len(last.ret.parameters) = Len(last.info.params)
     /\ \A k \in 1..Len(last.info.params) :
          /\ last.ret.parameters[k].type = type_part(last.info.params[k])
          /\ last.ret.parameters[k].name = name_part(last.info.params[k], k - 1)

\* C18: for an entry of the built-in table, the types decode_calldata decodes
\* the body against, the part of each params token before its first space,
\* are the types extract_param_types gives for the signature of the entry.
C18_TableTypesAgree ==
  (last.op = "decode" /\ last.consulted /\ last.selector \in DOMAIN COMMON_SIGNATURES)
  => [k \in 1..Len(last.info.params) |-> type_part(last.info.params[k])]
       = extract_param_types(last.info.signature)

(***************************************************************************)
(* The normalization model: _normalize_parameters of one array type and    *)
(* one list.                                                               *)
(***************************************************************************)
\* the array types T[] of the element types the encoder names
ArrayTypes ==
  { <<"a", "d", "d", "r", "e", "s", "s", "[", "]">>, <<"u", "i", "n", "t", "2", "5", "6", "[", "]">>, <<"u", "i", "n", "t", "8", "[", "]">>, <<"i", "n", "t", "2", "5", "6", "[", "]">>, <<"b", "o", "o", "l", "[", "]">>, <<"s", "t", "r", "i", "n", "g", "[", "]">>,
    <<"b", "y", "t", "e", "s", "[", "]">>, <<"b", "y", "t", "e", "s", "3", "2", "[", "]">>, <<"b", "y", "t", "e", "s", "4", "[", "]">> }

\* values as they come from the JSON body of a request
ElementValues == { PyStr(<<"0", "x", "0", "1">>), PyStr(<<"1", "2">>), IntOf(<<"7">>), PyBool(TRUE) }

\* the longest list
MaxItems == 2

NormalizeInputs ==
  { [param_type |-> t, value |-> PyList(l)] :
      t \in ArrayTypes, l \in UNION { [1..n -> ElementValues] : n \in 0..MaxItems } }

\* _normalize_parameters returns res, or raises when res.ok is FALSE
Normalized(param_types, parameters, res) ==
  last' = [tick |-> 1, op |-> "normalize",
           arg |-> [param_types |-> param_types, parameters |-> parameters],
           ok |-> res.ok, ret |-> res.values]

\* _normalize_parameters([input.param_type], [input.value])
Normalize ==
  /\ last = NoCall
  /\ Normalized(<<input.param_type>>, <<input.value>>,
                normalize_parameters(<<input.param_type>>, <<input.value>>))
  /\ UNCHANGED <<cache, pc, frame, requests, input>>

InitNormalize ==
  /\ InitState
  /\ input \in NormalizeInputs

NextNormalize == Normalize

SpecNormalize == InitNormalize /\ [][NextNormalize]_vars

\* C14: for a declared type T[] and a list, _normalize_parameters gives the
\* list of the elements, each normalized as a value of type T on its own is,
\* and raises only when an element on its own does.
C14_ArrayElementwise ==
  (last.op = "normalize" /\ IsArrayType(last.arg.param_types[1])
     /\ IsList(last.arg.parameters[1]))
  => LET element_type == ElementType(last.arg.param_types[1])
         elements == last.arg.parameters[1].list
     IN  IF \A k \in 1..Len(elements) : normalize_parameter(element_type, elements[k]).ok
         THEN /\ last.ok
              /\ last.ret = << PyList([k \in 1..Len(elements) |->
                                        normalize_parameter(element_type, elements[k]).value]) >>
         ELSE ~last.ok

====
